---- MODULE Spec2Model ----
(***************************************************************************)
(* Verification model of the shopping-agent repository.                    *)
(*                                                                         *)
(* SpecAgent: BaseAgent of src/agents/base_agent.py - the task queue, the  *)
(* dependency gate of add_task, the main loop and start/stop. The loop is  *)
(* one asyncio task: an action is the code it runs between two suspension  *)
(* points (await handle_message, await process_task, sleep).               *)
(*                                                                         *)
(* SpecOrder: Workflow.validate and Workflow.get_execution_order of        *)
(* src/workflow/workflow_models.py, over the workflows of up to four steps.*)
(*                                                                         *)
(* SpecEngine: WorkflowEngine of src/workflow/workflow_engine.py running   *)
(* a catalogue of workflows: start_workflow, the level loop of             *)
(* _execute_workflow, the tasks of _execute_step and stop_workflow. An     *)
(* action is again the code an asyncio task or a caller runs between two   *)
(* suspension points. SpecEngineShutdown: the same without stop_workflow   *)
(* and with shutdown.                                                      *)
(*                                                                         *)
(* SpecTool: BaseTool of src/tools/base_tool.py - run with its rate        *)
(* limiter, cache and timeout, and run_with_retry, under a clock.          *)
(*                                                                         *)
(* SpecTimeout: the timeouts of BaseTool.run and of                        *)
(* WorkflowEngine._execute_step under the same clock.                      *)
(*                                                                         *)
(* SpecManager: ToolManager of src/tools/tool_manager.py - the registry,   *)
(* execute_tool, execute_tools_batch and cancel_execution. SpecHistory:    *)
(* its execution history under register_tool, execute_tool,                *)
(* cancel_execution and cleanup_old_executions. SpecShutdown: the manager  *)
(* under register_tool, execute_tool and shutdown.                         *)
(*                                                                         *)
(* SpecMonitor: WorkflowMonitor of src/workflow/workflow_monitor.py - the  *)
(* metrics, the alert rules and the monitoring loop. SpecEventLog: its     *)
(* event log under record_workflow_event, get_events and the loop.         *)
(*                                                                         *)
(* SpecProject: ManagerAgent of src/agents/manager_agent.py - the projects *)
(* it registers and the completion reports it counts.                      *)
(*                                                                         *)
(* SpecRequest: the request API of src/api - the stores of the router and  *)
(* of AgentService, the background processing and cancel_request.          *)
(*                                                                         *)
(* SpecApp: ShoppingAgentApp of src/main.py - run() with the steps of      *)
(* initialize(), the signal handler and shutdown().                        *)
(***************************************************************************)
EXTENDS Integers, Sequences, FiniteSets, TLC

VARIABLES
    status,           \* BaseAgent.status: "idle" | "busy" | "error" | "offline"
    running,          \* BaseAgent._running
    loop_pc,          \* where BaseAgent._loop_task is suspended ("none": no task yet)
    cancel_requested, \* _loop_task.cancel() was called and is not yet delivered
    task_queue,       \* BaseAgent.task_queue: sequence of [task_id, priority]
    current_tasks,    \* BaseAgent.current_tasks: the set of its keys (task ids)
    completed_tasks,  \* BaseAgent.completed_tasks: sequence of [task_id, status]
    message_queue,    \* BaseAgent.message_queue
    metrics,          \* BaseAgent.metrics: tasks_completed, tasks_failed
    next_task_id,     \* the id the next accepted task gets (ids in arrival order)
    last_add,         \* the add_task call that has just returned: [deps, returned]
    stop_pc,          \* the caller of stop(): "idle" | "awaiting" (await self._loop_task)
    stopped,          \* history: stop() has returned and start() was not called since
    \* --- Workflow.validate / Workflow.get_execution_order (workflow_models.py)
    wf_steps,         \* Workflow.steps: sequence of [step_id, dependencies]
    wf_pc,            \* "new" | "validated" | "ordered"
    wf_errors,        \* what validate() returned: the set of errors
    wf_levels,        \* what get_execution_order() returned: the levels
    \* --- WorkflowEngine (workflow_engine.py)
    workflows,          \* WorkflowEngine.workflows: the ids of the workflows created
    executions,         \* WorkflowEngine.executions, in creation order (id = index)
    running_executions, \* WorkflowEngine.running_executions
    execution_tasks,    \* WorkflowEngine.execution_tasks: the set of its keys
    engine_metrics,     \* WorkflowEngine.metrics
    step_objects,       \* WorkflowStep.status / attempt_count, shared by executions
    step_attempts,      \* history: the _execute_step calls of each step task
    exec_task,          \* the asyncio task of _execute_workflow, per execution
    step_tasks,         \* the asyncio tasks of _execute_step, per execution
    stop_wait,          \* executions whose stop_workflow caller awaits the task
    stop_calls,         \* number of stop_workflow calls made
    stop_returned,      \* history: stop_workflow returned true on a running execution
    \* --- BaseTool (base_tool.py)
    clock,                 \* datetime.now() and the event loop's time, in ticks
    config,                \* BaseTool.config
    tool_status,           \* BaseTool.status
    cache,                 \* BaseTool.cache with cache_timestamps, per cache key
    rate_limit_timestamps, \* BaseTool.rate_limit_timestamps
    current_task,          \* BaseTool.current_task: the run call whose task it holds, or 0
    calls_made,            \* number of run calls made so far (a call's id)
    pending,               \* the run calls suspended in `await self.current_task`
    returned,              \* history: the run call that returned last
    pass_log,              \* history: when a run call passed the rate limiter
    last_success,          \* history: per kwargs, the last successful result of execute
    retry,                 \* the call of run_with_retry
    \* --- WorkflowEngine._execute_step under the clock
    timed_step,            \* one call of _execute_step: where it is, and its result
    \* --- ToolManager (tool_manager.py)
    manager_status,        \* ToolManager.status
    registrations,         \* ToolManager.tools: per tool object, its ToolRegistration
    active_executions,     \* ToolManager.active_executions: the set of its keys
    tool_executions,       \* the ToolExecution objects created, by id, and their calls
    execution_history,     \* ToolManager.execution_history: ids of the objects appended
    manager_stats,         \* total_executions, successful_executions, failed_executions
    emitted,               \* history: the events passed to _emit_event
    requests,              \* history: what the last execute_tool or batch call did
    cancel_returned,       \* history: executions for which cancel_execution returned true
    \* --- WorkflowMonitor (workflow_monitor.py)
    monitor_now,           \* the wall clock, in ticks
    events,                \* WorkflowMonitor.events
    monitor_metrics,       \* WorkflowMonitor.metrics, in insertion order
    last_triggered,        \* AlertRule.last_triggered of the rules that have fired
    monitor_loop,          \* is_monitoring, the loop task and its wake-up time; counters
    \* --- ManagerAgent (manager_agent.py)
    active_projects,       \* ManagerAgent.active_projects, in insertion order
    task_assignments,      \* ManagerAgent.task_assignments: the set of its keys
    performance_metrics,   \* ManagerAgent.performance_metrics: completed_projects
    plan_subtasks,         \* the subtasks _decompose_workflow has built so far
    execution_plan,        \* what _create_execution_plan returned for them
    \* --- the request API (api/routers/requests.py, api/services/agent_service.py)
    request_store,         \* routers/requests.py request_store, by request id
    active_requests,       \* AgentService.active_requests, by request id
    cancels,               \* history: the last cancel_request call and its answer,
                           \* n the number of calls so far
    \* --- ShoppingAgentApp (main.py)
    is_running,            \* ShoppingAgentApp.is_running
    shutdown_event,        \* ShoppingAgentApp.shutdown_event is set
    run_pc,                \* where run() is
    components,            \* vector_db, workflow_engine, workflow_monitor, tool_manager
                           \* of the application: "none" | "active" | "stopped"
    app_agents,            \* manager_agent, worker_agents, tester_agent (agent ids)
    engine_agents,         \* WorkflowEngine.agents of the application's engine,
                           \* by key ("none": no entry)
    registered,            \* history: the agents register_agent was called with
    teardown,              \* history: what the calls of shutdown() did, in order
    shutdown_calls         \* the calls of shutdown(): [caller, initialised, pc]

agent_vars == <<status, running, loop_pc, cancel_requested, task_queue, current_tasks,
                completed_tasks, message_queue, metrics, next_task_id, last_add,
                stop_pc, stopped>>

order_vars == <<wf_steps, wf_pc, wf_errors, wf_levels>>

engine_vars == <<workflows, executions, running_executions, execution_tasks,
                 engine_metrics, step_objects, step_attempts, exec_task, step_tasks,
                 stop_wait, stop_calls, stop_returned>>

tool_vars == <<clock, config, tool_status, cache, rate_limit_timestamps,
               current_task, calls_made, pending, returned, pass_log, last_success,
               retry>>

manager_vars == <<manager_status, registrations, active_executions, tool_executions,
                  execution_history, manager_stats, emitted, requests, cancel_returned>>

monitor_vars == <<monitor_now, events, monitor_metrics, last_triggered, monitor_loop>>

\* the components around the engine and the tools
project_vars == <<active_projects, task_assignments, performance_metrics,
                  plan_subtasks, execution_plan>>

request_vars == <<request_store, active_requests, cancels>>

app_vars == <<is_running, shutdown_event, run_pc, components, app_agents,
              engine_agents, registered, teardown, shutdown_calls>>

service_vars == <<monitor_vars, project_vars, request_vars, app_vars>>

vars == <<agent_vars, order_vars, engine_vars, tool_vars, timed_step, manager_vars,
          service_vars>>

\* what an operation of one component leaves alone: the other components
AgentFrame ==
    UNCHANGED <<order_vars, engine_vars, tool_vars, timed_step, manager_vars,
                service_vars>>

OrderFrame ==
    UNCHANGED <<agent_vars, engine_vars, tool_vars, timed_step, manager_vars,
                service_vars>>

ToolFrame ==
    UNCHANGED <<agent_vars, order_vars, engine_vars, timed_step, manager_vars,
                service_vars>>

TimedStepFrame ==
    UNCHANGED <<agent_vars, order_vars, engine_vars, tool_vars, manager_vars,
                service_vars>>

\* the manager calls the tool's execute, not its run: the state of BaseTool.run
\* (limiter, cache, current_task) is not touched
ManagerFrame ==
    UNCHANGED <<agent_vars, order_vars, engine_vars, tool_vars, timed_step,
                service_vars>>

\* ---------------------------------------------------------------- bounds
MaxTasks == 3
MaxMessages == 1

MaxStepDeps == 2

\* priorities offered to add_task (AgentTask.priority is any integer)
Priorities == {1, 3, 5}
DepIds == {1, 2}
\* AgentTask.dependencies: None/empty, one id, or two ids
DepLists == {<<>>} \cup {<<a>> : a \in DepIds} \cup {<<a, b>> : a, b \in DepIds}

\* no add_task call has just returned
NoCall == [deps |-> <<>>, returned |-> "none"]

\* ---------------------------------------------------------------- BaseAgent
AgentInit ==
    /\ status = "idle"
    /\ running = FALSE
    /\ loop_pc = "none"
    /\ cancel_requested = FALSE
    /\ task_queue = <<>>
    /\ current_tasks = {}
    /\ completed_tasks = <<>>
    /\ message_queue = <<>>
    /\ metrics = [tasks_completed |-> 0, tasks_failed |-> 0]
    /\ next_task_id = 1
    /\ last_add = NoCall
    /\ stop_pc = "idle"
    /\ stopped = FALSE

\* _is_dependency_satisfied: some completed_tasks entry has this id and status completed
is_dependency_satisfied_AnyStatus(dependency_id) ==
    \E i \in 1..Len(completed_tasks) : completed_tasks[i].task_id = dependency_id

is_dependency_satisfied(dependency_id) ==
    \E i \in 1..Len(completed_tasks) :
        /\ completed_tasks[i].task_id = dependency_id
        /\ completed_tasks[i].status = "completed"

\* the index add_task inserts at: before the first queued task of strictly lower
\* priority, else at the end
InsertIndex_NotStable(queue, priority) ==
    LET lower == {i \in 1..Len(queue) : priority >= queue[i].priority}
    IN  IF lower = {} THEN Len(queue) + 1
        ELSE CHOOSE i \in lower : \A j \in lower : i <= j

InsertIndex(queue, priority) ==
    LET lower == {i \in 1..Len(queue) : priority > queue[i].priority}
    IN  IF lower = {} THEN Len(queue) + 1
        ELSE CHOOSE i \in lower : \A j \in lower : i <= j

InsertAt(queue, i, task) ==
    SubSeq(queue, 1, i - 1) \o <<task>> \o SubSeq(queue, i, Len(queue))

\* add_task(task): the task's id is the next unused one
add_task(priority, deps) ==
    /\ AgentFrame
    /\ next_task_id <= MaxTasks
    /\ LET task == [task_id |-> next_task_id, priority |-> priority]
           ok == \A k \in 1..Len(deps) : is_dependency_satisfied(deps[k])
       IN  /\ last_add' = [deps |-> deps, returned |-> IF ok THEN "true" ELSE "false"]
           /\ IF ok
              THEN /\ task_queue' = InsertAt(task_queue,
                                             InsertIndex(task_queue, priority), task)
                   /\ next_task_id' = next_task_id + 1
              ELSE UNCHANGED <<task_queue, next_task_id>>
    /\ UNCHANGED <<status, running, loop_pc, cancel_requested, current_tasks,
                   completed_tasks, message_queue, metrics, stop_pc, stopped>>

\* receive_message(message)
receive_message ==
    /\ AgentFrame
    /\ last_add' = NoCall
    /\ Len(message_queue) < MaxMessages
    /\ message_queue' = Append(message_queue, "message")
    /\ UNCHANGED <<status, running, loop_pc, cancel_requested, task_queue,
                   current_tasks, completed_tasks, metrics, next_task_id,
                   stop_pc, stopped>>

\* start()
start ==
    /\ AgentFrame
    /\ last_add' = NoCall
    /\ stop_pc = "idle"
    /\ ~running
    /\ running' = TRUE
    /\ status' = "idle"
    /\ loop_pc' = "created"
    /\ cancel_requested' = FALSE
    /\ stopped' = FALSE
    /\ UNCHANGED <<task_queue, current_tasks, completed_tasks, message_queue,
                   metrics, next_task_id, stop_pc>>

\* _process_tasks up to its await: the guard, the dequeue, the TaskExecution
CanDequeue_NoStatusGuard == task_queue # <<>>

CanDequeue == status = "idle" /\ task_queue # <<>>

\* the rest of an iteration after the messages are drained: _process_tasks, and when
\* it returns at once _update_status and the sleep; raised: the body raised
process_tasks(raised) ==
    IF CanDequeue
    THEN /\ task_queue' = Tail(task_queue)
         /\ current_tasks' = current_tasks \cup {Head(task_queue).task_id}
         /\ status' = "busy"
         /\ loop_pc' = "processing"
    ELSE /\ UNCHANGED <<task_queue, current_tasks>>
         /\ status' = IF raised THEN "error" ELSE status
         /\ loop_pc' = IF raised THEN "error_sleep" ELSE "sleep"

\* _process_messages: pop the next message and await handle_message, or go on
process_messages(raised) ==
    IF message_queue # <<>>
    THEN /\ message_queue' = Tail(message_queue)
         /\ loop_pc' = "handling"
         /\ UNCHANGED <<status, task_queue, current_tasks>>
    ELSE /\ UNCHANGED message_queue
         /\ process_tasks(raised)

\* _main_loop: the task starts, or wakes from a sleep, and runs to its next await
LoopIterate ==
    /\ AgentFrame
    /\ last_add' = NoCall
    /\ loop_pc \in {"created", "sleep", "error_sleep"}
    /\ ~cancel_requested
    /\ IF running
       THEN \E raised \in BOOLEAN : process_messages(raised)
       ELSE /\ loop_pc' = "done"
            /\ UNCHANGED <<status, task_queue, current_tasks, message_queue>>
    /\ UNCHANGED <<running, cancel_requested, completed_tasks, metrics, next_task_id, stop_pc, stopped>>

\* handle_message returned (or raised an Exception, which is logged)
HandleMessageDone ==
    /\ AgentFrame
    /\ last_add' = NoCall
    /\ loop_pc = "handling"
    /\ ~cancel_requested
    /\ \E raised \in BOOLEAN : process_messages(raised)
    /\ UNCHANGED <<running, cancel_requested, completed_tasks, metrics, next_task_id, stop_pc, stopped>>

\* process_task returned (success) or raised an Exception: the rest of _process_tasks,
\* then _update_status and the sleep
ProcessTaskDone ==
    /\ AgentFrame
    /\ last_add' = NoCall
    /\ loop_pc = "processing"
    /\ ~cancel_requested
    /\ \E success \in BOOLEAN, raised \in BOOLEAN, t \in current_tasks :
        /\ completed_tasks' = Append(completed_tasks,
               [task_id |-> t, status |-> IF success THEN "completed" ELSE "failed"])
        /\ metrics' = IF success
                      THEN [metrics EXCEPT !.tasks_completed = @ + 1]
                      ELSE [metrics EXCEPT !.tasks_failed = @ + 1]
        /\ current_tasks' = current_tasks \ {t}
        /\ status' = IF raised THEN "error" ELSE "idle"
        /\ loop_pc' = IF raised THEN "error_sleep" ELSE "sleep"
    /\ UNCHANGED <<running, cancel_requested, task_queue, message_queue, next_task_id, stop_pc, stopped>>

\* the CancelledError of stop() reaches the loop task at its suspension point; inside
\* process_task the finally block of _process_tasks runs on the way out
LoopCancelled ==
    /\ AgentFrame
    /\ last_add' = NoCall
    /\ cancel_requested
    /\ loop_pc \notin {"none", "done"}
    /\ cancel_requested' = FALSE
    /\ loop_pc' = "done"
    /\ IF loop_pc = "processing"
       THEN \E t \in current_tasks :
               /\ completed_tasks' = Append(completed_tasks,
                                        [task_id |-> t, status |-> "in_progress"])
               /\ current_tasks' = current_tasks \ {t}
               /\ status' = "idle"
       ELSE UNCHANGED <<completed_tasks, current_tasks, status>>
    /\ UNCHANGED <<running, task_queue, message_queue, metrics, next_task_id,
                   stop_pc, stopped>>

\* stop() up to `await self._loop_task`
StopCall ==
    /\ AgentFrame
    /\ last_add' = NoCall
    /\ stop_pc = "idle"
    /\ running' = FALSE
    /\ status' = "offline"
    /\ IF loop_pc \in {"none", "done"}
       THEN /\ stopped' = TRUE
            /\ UNCHANGED <<stop_pc, cancel_requested>>
       ELSE /\ cancel_requested' = TRUE
            /\ stop_pc' = "awaiting"
            /\ UNCHANGED stopped
    /\ UNCHANGED <<loop_pc, task_queue, current_tasks, completed_tasks, message_queue,
                   metrics, next_task_id>>

\* stop() returns once the cancelled loop task has finished
StopReturn ==
    /\ AgentFrame
    /\ last_add' = NoCall
    /\ stop_pc = "awaiting"
    /\ loop_pc = "done"
    /\ stop_pc' = "idle"
    /\ stopped' = TRUE
    /\ UNCHANGED <<status, running, loop_pc, cancel_requested, task_queue,
                   current_tasks, completed_tasks, message_queue, metrics, next_task_id>>

AgentNext ==
    \/ \E p \in Priorities, d \in DepLists : add_task(p, d)
    \/ receive_message
    \/ start
    \/ LoopIterate
    \/ HandleMessageDone
    \/ ProcessTaskDone
    \/ LoopCancelled
    \/ StopCall
    \/ StopReturn

\* ---------------------------------------------------------------- Workflow model
\* step ids of the workflows examined, in the order of Workflow.steps
StepNames == <<"A", "B", "C", "D">>
StepIds == {StepNames[i] : i \in 1..Len(StepNames)}

\* the position of a step id in Workflow.steps
StepRank(s) == CHOOSE i \in 1..Len(StepNames) : StepNames[i] = s

SeqOfSet(S) ==
    LET RECURSIVE F(_)
        F(T) == IF T = {} THEN <<>>
                ELSE LET x == CHOOSE y \in T : \A z \in T : StepRank(y) <= StepRank(z)
                     IN  <<x>> \o F(T \ {x})
    IN  F(S)

\* WorkflowStep.dependencies: lists of at most MaxStepDeps distinct ids, and the lists
\* that name one id twice
StepDepLists ==
    {SeqOfSet(S) : S \in {T \in SUBSET StepIds : Cardinality(T) <= MaxStepDeps}}
        \cup {<<a, a>> : a \in StepIds}

\* an empty workflow under construction
OrderParked ==
    /\ wf_steps = <<>>
    /\ wf_pc = "new"
    /\ wf_errors = {}
    /\ wf_levels = <<>>

\* Workflow.get_step: the first step with this id, or None
HasStep(steps, step_id) == \E i \in 1..Len(steps) : steps[i].step_id = step_id

get_step(steps, step_id) ==
    steps[CHOOSE i \in 1..Len(steps) :
            /\ steps[i].step_id = step_id
            /\ \A j \in 1..(i - 1) : steps[j].step_id # step_id]

\* Workflow._has_circular_dependency: the depth-first visit; the result carries the
\* visited set, which the code shares between the calls
RECURSIVE visit(_, _, _, _), visit_deps(_, _, _, _, _)
visit(steps, step_id, visited, rec_stack) ==
    LET deps == IF HasStep(steps, step_id)
                THEN get_step(steps, step_id).dependencies ELSE <<>>
    IN  visit_deps(steps, deps, 1, visited \cup {step_id}, rec_stack \cup {step_id})

visit_deps(steps, deps, k, visited, rec_stack) ==
    IF k > Len(deps) THEN [cycle |-> FALSE, visited |-> visited]
    ELSE IF deps[k] \notin visited
         THEN LET r == visit(steps, deps[k], visited, rec_stack)
              IN  IF r.cycle THEN r
                  ELSE visit_deps(steps, deps, k + 1, r.visited, rec_stack)
         ELSE IF deps[k] \in rec_stack
              THEN [cycle |-> TRUE, visited |-> visited]
              ELSE visit_deps(steps, deps, k + 1, visited, rec_stack)

RECURSIVE has_cycle_from(_, _, _)
has_cycle_from(steps, i, visited) ==
    IF i > Len(steps) THEN FALSE
    ELSE IF steps[i].step_id \in visited THEN has_cycle_from(steps, i + 1, visited)
         ELSE LET r == visit(steps, steps[i].step_id, visited, {})
              IN  r.cycle \/ has_cycle_from(steps, i + 1, r.visited)

has_circular_dependency(steps) == has_cycle_from(steps, 1, {})

\* Workflow.validate: the set of error kinds (the name is given, no variable is required)
validate(steps) ==
    (IF steps = <<>> THEN {"no_steps"} ELSE {})
    \cup (IF \E i, j \in 1..Len(steps) : i # j /\ steps[i].step_id = steps[j].step_id
          THEN {"duplicate_step_id"} ELSE {})
    \cup (IF \E i \in 1..Len(steps) : \E k \in 1..Len(steps[i].dependencies) :
               ~HasStep(steps, steps[i].dependencies[k])
          THEN {"unknown_dependency"} ELSE {})
    \cup (IF has_circular_dependency(steps) THEN {"circular_dependency"} ELSE {})

\* get_execution_order, graph construction: in_degree[s] counts the dependencies of s
\* that are steps; graph[d] lists the dependents of d, in the order they are appended
KnownDeps(steps, i) ==
    SelectSeq(steps[i].dependencies, LAMBDA d : HasStep(steps, d))

in_degree_of(steps) ==
    [s \in {steps[i].step_id : i \in 1..Len(steps)} |->
        LET i == CHOOSE j \in 1..Len(steps) : steps[j].step_id = s
        IN  Len(KnownDeps(steps, i))]

\* graph[d]: one entry steps[i].step_id for every occurrence of d in steps[i].dependencies
RECURSIVE graph_of_step(_, _, _)
graph_of_step(steps, d, i) ==
    IF i > Len(steps) THEN <<>>
    ELSE [k \in 1..Len(SelectSeq(steps[i].dependencies, LAMBDA x : x = d)) |->
             steps[i].step_id] \o graph_of_step(steps, d, i + 1)

\* a neighbour joins the next level when its in-degree has just reached zero
NeighbourReady_OneTooEarly(degree) == degree <= 1

NeighbourReady(degree) == degree = 0

\* the inner loops of get_execution_order: state is [in_degree, queue]
RECURSIVE relax_neighbours(_, _, _)
relax_neighbours(neighbours, k, st) ==
    IF k > Len(neighbours) THEN st
    ELSE LET n == neighbours[k]
             degree == st.in_degree[n] - 1
         IN  relax_neighbours(neighbours, k + 1,
                 [in_degree |-> [st.in_degree EXCEPT ![n] = degree],
                  queue |-> IF NeighbourReady(degree)
                            THEN Append(st.queue, n) ELSE st.queue])

RECURSIVE relax_level(_, _, _, _)
relax_level(steps, level, i, st) ==
    IF i > Len(level) THEN st
    ELSE relax_level(steps, level, i + 1,
             relax_neighbours(graph_of_step(steps, level[i], 1), 1, st))

\* the while loop: the queue becomes a level, its neighbours the next queue
RECURSIVE order_levels(_, _, _)
order_levels(steps, queue, in_degree) ==
    IF queue = <<>> THEN <<>>
    ELSE LET st == relax_level(steps, queue, 1, [in_degree |-> in_degree, queue |-> <<>>])
         IN  <<queue>> \o order_levels(steps, st.queue, st.in_degree)

\* Workflow.get_execution_order
get_execution_order(steps) ==
    LET in_degree == in_degree_of(steps)
        ids == [i \in 1..Len(steps) |-> steps[i].step_id]
        queue == SelectSeq(ids, LAMBDA s : in_degree[s] = 0)
    IN  order_levels(steps, queue, in_degree)

\* Workflow.add_step: the next step id, with one of the dependency lists
add_step(deps) ==
    /\ OrderFrame
    /\ wf_pc = "new"
    /\ Len(wf_steps) < Len(StepNames)
    /\ wf_steps' = Append(wf_steps, [step_id |-> StepNames[Len(wf_steps) + 1],
                                     dependencies |-> deps])
    /\ UNCHANGED <<wf_pc, wf_errors, wf_levels>>

\* WorkflowEngine.create_workflow: validate()
Validate ==
    /\ OrderFrame
    /\ wf_pc = "new"
    /\ wf_pc' = "validated"
    /\ wf_errors' = validate(wf_steps)
    /\ UNCHANGED <<wf_steps, wf_levels>>

\* Workflow.get_execution_order()
ComputeOrder ==
    /\ OrderFrame
    /\ wf_pc = "validated"
    /\ wf_pc' = "ordered"
    /\ wf_levels' = get_execution_order(wf_steps)
    /\ UNCHANGED <<wf_steps, wf_errors>>

OrderNext ==
    \/ \E deps \in StepDepLists : add_step(deps)
    \/ Validate
    \/ ComputeOrder

\* ---------------------------------------------------------------- WorkflowEngine
MaxExecutions == 2
MaxStopCalls == 1

\* TaskType (ai/agent_nlp_handler.py): the values TaskType(...) accepts
TaskTypes == {"document_summary", "data_analysis", "workflow_automation",
              "customer_support", "code_assistance", "general_chat"}

\* the keys of WorkflowEngine.agents once the application has registered its agents:
\* register_agent stores an agent under agent_type.value
RegisteredAgentTypes == {"manager", "worker", "tester"}

\* a WorkflowStep as main.create_workflow builds it: agent_type is the "agent_id" of
\* the step data ("" when absent), task_type / steps / auto_approve are parameters
\* ("" is an absent task_type)
WorkflowStep(step_id, step_type, dependencies, agent_type, task_type, steps, auto_approve) ==
    [step_id |-> step_id, step_type |-> step_type, dependencies |-> dependencies,
     agent_type |-> agent_type, task_type |-> task_type, steps |-> steps,
     auto_approve |-> auto_approve]

\* create_sample_workflow: collect, analyze, report in a linear chain
SampleWorkflow ==
    [steps |-> <<
        WorkflowStep("collect_data", "task", <<>>, "worker_doc_001", "web_scraping",
                     <<>>, TRUE),
        WorkflowStep("analyze_data", "task", <<"collect_data">>, "worker_data_001",
                     "data_analysis", <<>>, TRUE),
        WorkflowStep("generate_report", "task", <<"analyze_data">>, "worker_doc_001",
                     "document_generation", <<>>, TRUE) >>,
     max_concurrent_executions |-> 1,
     retry_failed_executions |-> FALSE]

\* a parallel container next to a wait; the container's child depends on the wait
NestedWorkflow ==
    [steps |-> <<
        WorkflowStep("prepare", "wait", <<>>, "", "", <<>>, TRUE),
        WorkflowStep("fan_out", "parallel", <<>>, "", "", <<"publish">>, TRUE),
        WorkflowStep("publish", "wait", <<"prepare">>, "", "", <<>>, TRUE) >>,
     max_concurrent_executions |-> 1,
     retry_failed_executions |-> FALSE]

\* an approval that is refused next to a wait, then a task for the registered
\* worker type; the workflow goes on after a failed level and may run twice at once
TolerantWorkflow ==
    [steps |-> <<
        WorkflowStep("approve", "approval", <<>>, "", "", <<>>, FALSE),
        WorkflowStep("load", "wait", <<>>, "", "", <<>>, TRUE),
        WorkflowStep("store", "task", <<"load">>, "", "data_analysis", <<>>, TRUE) >>,
     max_concurrent_executions |-> 2,
     retry_failed_executions |-> TRUE]

WorkflowIds == {"sample", "nested", "tolerant"}

\* StepRetryConfig(): max_attempts of the default configuration
max_attempts == 3

\* StepRetryConfig(), the defaults: the delays are in seconds, retry_on_errors is
\* empty (every error is retried)
StepRetryConfig ==
    [max_attempts |-> max_attempts, delay_seconds |-> 1, backoff_multiplier |-> 2,
     max_delay_seconds |-> 60, retry_on_errors |-> {}]

\* a workflow created after the catalogue: a task step for the registered worker
\* type without a task_type, so that TaskType("general") raises ValueError on every
\* attempt, with the default retry_config (the other steps have none: the field is
\* absent), next to a wait; two executions may run at once
RetryWorkflow ==
    [steps |-> <<
        WorkflowStep("fetch", "task", <<>>, "", "", <<>>, TRUE)
            @@ [retry_config |-> StepRetryConfig],
        WorkflowStep("settle", "wait", <<>>, "", "", <<>>, TRUE) >>,
     max_concurrent_executions |-> 2,
     retry_failed_executions |-> FALSE]

RetryWorkflowIds == {"flaky"}

WorkflowDef(w) ==
    CASE w = "sample" -> SampleWorkflow
      [] w = "nested" -> NestedWorkflow
      [] w = "tolerant" -> TolerantWorkflow
      [] w = "flaky" -> RetryWorkflow

StepsOf(w) == WorkflowDef(w).steps

StepIdsOf(w) == {StepsOf(w)[i].step_id : i \in 1..Len(StepsOf(w))}

AllStepIds == UNION {StepIdsOf(w) : w \in WorkflowIds}

\* an _execute_step task is created by the level loop or by a container step
TaskKeys(w) == StepIdsOf(w) \X {"level", "child"}

\* the engine once the application has created the catalogue: create_workflow stores
\* a workflow (status ACTIVE, as main.create_workflow sets it) when validate()
\* reports nothing, and counts it
EngineInit ==
    /\ \A w \in WorkflowIds : validate(StepsOf(w)) = {}
    /\ workflows = WorkflowIds
    /\ executions = <<>>
    /\ running_executions = {}
    /\ execution_tasks = {}
    /\ engine_metrics = [total_workflows |-> Cardinality(WorkflowIds), total_executions |-> 0,
                         successful_executions |-> 0, failed_executions |-> 0,
                         active_executions |-> 0]
    /\ step_objects = [s \in AllStepIds |-> [status |-> "pending", attempt_count |-> 0]]
    /\ step_attempts = [k \in {} |-> 0]
    /\ exec_task = <<>>
    /\ step_tasks = <<>>
    /\ stop_wait = {}
    /\ stop_calls = 0
    /\ stop_returned = {}

\* the agent registered under the worker type is the BaseAgent modelled above: its
\* loop variables are left alone by the engine
agent_loop_vars == <<status, running, loop_pc, cancel_requested, current_tasks,
                     completed_tasks, message_queue, metrics, stop_pc, stopped>>

EngineFrame ==
    UNCHANGED <<order_vars, tool_vars, timed_step, manager_vars, service_vars>>

\* ---- pure parts of the engine
\* step.agent_type or "worker"
AgentKey(step) == IF step.agent_type = "" THEN "worker" ELSE step.agent_type

\* step.parameters.get("task_type", "general")
TaskTypeOf(step) == IF step.task_type = "" THEN "general" ELSE step.task_type

\* _execute_task_step gets as far as agent.add_task
TaskReachesAgent(step) ==
    /\ step.step_type = "task"
    /\ AgentKey(step) \in RegisteredAgentTypes
    /\ TaskTypeOf(step) \in TaskTypes

\* what the executor of the step type hands to _execute_step: a successful result,
\* a failed result, or (TaskType(...) of an unknown value) a ValueError, which
\* _execute_step turns into a failed result (no retry_config: should_retry is false)
executor_result(step) ==
    CASE step.step_type = "task" ->
            IF AgentKey(step) \notin RegisteredAgentTypes THEN "failed"
            ELSE IF TaskTypeOf(step) \notin TaskTypes THEN "failed" ELSE "success"
      [] step.step_type = "wait" -> "success"
      [] step.step_type = "approval" -> IF step.auto_approve THEN "success" ELSE "failed"
      [] step.step_type = "parallel" -> IF step.steps = <<>> THEN "failed" ELSE "success"

\* the executor raises instead of returning a result: TaskType(...) of an unknown
\* value is a ValueError, raised before the try of _execute_task_step
executor_raises(step) ==
    /\ step.step_type = "task"
    /\ AgentKey(step) \in RegisteredAgentTypes
    /\ TaskTypeOf(step) \notin TaskTypes

\* WorkflowStep.should_retry(error) for an error of type error_type, the step object
\* having counted attempt_count attempts
should_retry(step, attempt_count, error_type) ==
    IF "retry_config" \notin DOMAIN step THEN FALSE
    ELSE IF attempt_count >= step.retry_config.max_attempts THEN FALSE
    ELSE IF /\ step.retry_config.retry_on_errors # {}
            /\ error_type \notin step.retry_config.retry_on_errors THEN FALSE
    ELSE TRUE

\* the smaller of two numbers
Min(a, b) == IF a <= b THEN a ELSE b

\* WorkflowStep.get_retry_delay
get_retry_delay(step, attempt_count) ==
    IF "retry_config" \notin DOMAIN step THEN 0
    ELSE Min(step.retry_config.delay_seconds
                * step.retry_config.backoff_multiplier ^ (attempt_count - 1),
             step.retry_config.max_delay_seconds)

\* WorkflowStep.can_execute (no condition): every dependency is a completed step
can_execute(step, completed_step_ids) ==
    \A k \in 1..Len(step.dependencies) : step.dependencies[k] \in completed_step_ids

\* WorkflowExecution.get_completed_step_ids
get_completed_step_ids(execution) ==
    {s \in DOMAIN execution.step_executions : execution.step_executions[s] = "success"}

\* WorkflowExecution.add_step_result
add_step_result(execution, step_id, result) ==
    [execution EXCEPT !.step_executions[step_id] = result,
                      !.completed_steps = @ + (IF result = "success" THEN 1 ELSE 0),
                      !.failed_steps = @ + (IF result = "success" THEN 0 ELSE 1)]

\* workflow.get_execution_order() of a catalogue workflow, and one level as a set
execution_levels ==
    [w \in WorkflowIds \cup RetryWorkflowIds |-> get_execution_order(StepsOf(w))]

Levels(w) == execution_levels[w]

LevelSet(w, l) == {Levels(w)[l][k] : k \in 1..Len(Levels(w)[l])}

\* the level loop of _execute_workflow from level l up to its next suspension: it
\* either awaits the gather of the steps it launched ("gather") or leaves the loop
\* ("complete", after a break when a level failed). after_level is the check that
\* follows the gather of level l.
RECURSIVE run_levels(_, _, _), after_level(_, _, _)
run_levels(w, execution, l) ==
    IF l > Len(Levels(w))
    THEN [kind |-> "complete", broke |-> FALSE, level |-> l, launch |-> {}]
    ELSE LET launch == {s \in LevelSet(w, l) :
                          /\ HasStep(StepsOf(w), s)
                          /\ can_execute(get_step(StepsOf(w), s),
                                         get_completed_step_ids(execution))}
         IN  IF launch # {}
             THEN [kind |-> "gather", broke |-> FALSE, level |-> l, launch |-> launch]
             ELSE after_level(w, execution, l)

after_level(w, execution, l) ==
    IF /\ \E s \in LevelSet(w, l) : execution.step_executions[s] = "failed"
       /\ ~WorkflowDef(w).retry_failed_executions
    THEN [kind |-> "complete", broke |-> TRUE, level |-> l, launch |-> {}]
    ELSE run_levels(w, execution, l + 1)

\* _complete_workflow_execution, the final status: decided only while still running
FinalStatus_IgnoresFailedSteps(execution_status, failed_steps) ==
    IF execution_status = "running" THEN "completed" ELSE execution_status

FinalStatus(execution_status, failed_steps) ==
    IF execution_status = "running"
    THEN IF failed_steps > 0 THEN "failed" ELSE "completed"
    ELSE execution_status

\* _complete_workflow_execution; execution_status is the status on entry
complete_workflow_execution(e, execution_status) ==
    LET final == FinalStatus(execution_status, executions[e].failed_steps)
    IN  /\ executions' = [executions EXCEPT ![e].status = final]
        /\ running_executions' = running_executions \ {e}
        /\ engine_metrics' =
             [engine_metrics EXCEPT
                !.active_executions = @ - 1,
                !.successful_executions = @ + (IF final = "completed" THEN 1 ELSE 0),
                !.failed_executions = @ + (IF final = "completed" THEN 0 ELSE 1)]
        /\ execution_tasks' = execution_tasks \ {e}

\* the execution task goes on from level r.level: it creates the step tasks of the
\* level and awaits them, or (after the last level or a break) completes
Proceed(e, r) ==
    LET w == executions[e].workflow_id
    IN  IF r.kind = "gather"
        THEN /\ step_tasks' = [step_tasks EXCEPT ![e] =
                    [k \in TaskKeys(w) |->
                        IF k[2] = "level" /\ k[1] \in r.launch
                        THEN "created" ELSE step_tasks[e][k]]]
             /\ exec_task' = [exec_task EXCEPT ![e] =
                    [pc |-> "gather", level |-> r.level]]
             /\ UNCHANGED <<executions, running_executions, execution_tasks,
                            engine_metrics>>
        ELSE /\ complete_workflow_execution(e,
                    IF r.broke THEN "failed" ELSE executions[e].status)
             /\ exec_task' = [exec_task EXCEPT ![e].pc = "done"]
             /\ UNCHANGED step_tasks

\* the step tasks that are cancelled with the execution task: gather forwards the
\* cancellation to every task it awaits, a container step to its children
CancelScope_ExecutionTaskOnly(tasks) == {}

CancelScope(tasks) == {k \in DOMAIN tasks : tasks[k] \in {"created", "running"}}

\* start_workflow: the concurrency check
ConcurrencyLimitReached_OffByOne(active_count, max_concurrent_executions) ==
    active_count > max_concurrent_executions

ConcurrencyLimitReached(active_count, max_concurrent_executions) ==
    active_count >= max_concurrent_executions

\* ---- operations of the engine
\* create_workflow(workflow) of a workflow that is not in the catalogue yet: it is
\* stored when validate() reports nothing, and counted; its steps are new objects
create_workflow(w) ==
    /\ EngineFrame
    /\ UNCHANGED agent_vars
    /\ w \notin workflows
    /\ IF validate(StepsOf(w)) # {}
       THEN UNCHANGED engine_vars
       ELSE /\ workflows' = workflows \cup {w}
            /\ engine_metrics' = [engine_metrics EXCEPT !.total_workflows = @ + 1]
            /\ step_objects' = step_objects @@
                  [s \in StepIdsOf(w) |-> [status |-> "pending", attempt_count |-> 0]]
            /\ UNCHANGED <<executions, running_executions, execution_tasks,
                           step_attempts, exec_task, step_tasks, stop_wait,
                           stop_calls, stop_returned>>

\* start_workflow(workflow_id): returns None for an unknown workflow and when the
\* limit is reached; otherwise registers the execution and creates its task. The
\* execution id is fresh (a timestamp to the microsecond): here the next index.
start_workflow(w) ==
    /\ EngineFrame
    /\ UNCHANGED agent_vars
    /\ LET active_count == Cardinality({e \in 1..Len(executions) :
                                /\ executions[e].workflow_id = w
                                /\ executions[e].status = "running"})
           id == Len(executions) + 1
       IN  IF w \notin workflows
           THEN UNCHANGED engine_vars
           ELSE IF ConcurrencyLimitReached(active_count,
                                           WorkflowDef(w).max_concurrent_executions)
           THEN UNCHANGED engine_vars
           ELSE /\ id <= MaxExecutions
                /\ executions' = Append(executions,
                      [workflow_id |-> w, status |-> "running",
                       step_executions |-> [s \in StepIdsOf(w) |-> "none"],
                       completed_steps |-> 0, failed_steps |-> 0,
                       total_steps |-> Len(StepsOf(w))])
                /\ running_executions' = running_executions \cup {id}
                /\ engine_metrics' = [engine_metrics EXCEPT
                                        !.total_executions = @ + 1,
                                        !.active_executions = @ + 1]
                /\ execution_tasks' = execution_tasks \cup {id}
                /\ exec_task' = Append(exec_task,
                                       [pc |-> "created", level |-> 0])
                /\ step_tasks' = Append(step_tasks, [k \in TaskKeys(w) |-> "none"])
                /\ UNCHANGED <<workflows, step_attempts, step_objects, stop_wait, stop_calls,
                               stop_returned>>

\* _execute_workflow, first run of the task: the order is computed and the first
\* level with an executable step is launched
execute_workflow_begin(e) ==
    /\ EngineFrame
    /\ UNCHANGED agent_vars
    /\ exec_task[e].pc = "created"
    /\ Proceed(e, run_levels(executions[e].workflow_id, executions[e], 1))
    /\ UNCHANGED <<workflows, step_attempts, step_objects, stop_wait, stop_calls, stop_returned>>

\* _execute_workflow after the gather of a level: every task of the level has ended
level_gathered(e) ==
    /\ EngineFrame
    /\ UNCHANGED agent_vars
    /\ exec_task[e].pc = "gather"
    /\ \A s \in StepIdsOf(executions[e].workflow_id) :
          step_tasks[e][<<s, "level">>] \notin {"created", "running"}
    /\ Proceed(e, after_level(executions[e].workflow_id, executions[e],
                              exec_task[e].level))
    /\ UNCHANGED <<workflows, step_attempts, step_objects, stop_wait, stop_calls, stop_returned>>

\* the tasks a parallel step creates: one per listed id that is a step
ChildKeys(w, step) ==
    IF step.step_type = "parallel"
    THEN {<<step.steps[k], "child">> :
            k \in {j \in 1..Len(step.steps) : HasStep(StepsOf(w), step.steps[j])}}
    ELSE {}

\* _execute_step, a call of it by the task (the first, or the recursive call of a
\* retry), up to the suspension of its executor: the shared step object is marked
\* running and its attempt_count goes up; a task step that finds its agent hands the
\* task to agent.add_task (priority 1, no dependencies) and sleeps; a parallel step
\* creates the tasks of its children and awaits them
execute_step_begin(e, key) ==
    /\ EngineFrame
    /\ step_tasks[e][key] = "created"
    /\ LET w == executions[e].workflow_id
           step == get_step(StepsOf(w), key[1])
       IN  /\ step_objects' = [step_objects EXCEPT ![key[1]] =
                  [status |-> "running", attempt_count |-> @.attempt_count + 1]]
           /\ step_attempts' =
                  IF <<e, key>> \in DOMAIN step_attempts
                  THEN [step_attempts EXCEPT ![<<e, key>>] = @ + 1]
                  ELSE step_attempts @@ (<<e, key>> :> 1)
           /\ step_tasks' = [step_tasks EXCEPT ![e] =
                  [k \in TaskKeys(w) |->
                      IF k = key THEN "running"
                      ELSE IF k \in ChildKeys(w, step) THEN "created"
                      ELSE step_tasks[e][k]]]
           /\ IF TaskReachesAgent(step)
              THEN /\ task_queue' = InsertAt(task_queue, InsertIndex(task_queue, 1),
                                        [task_id |-> next_task_id, priority |-> 1])
                   /\ next_task_id' = next_task_id + 1
                   /\ last_add' = [deps |-> <<>>, returned |-> "true"]
              ELSE UNCHANGED <<task_queue, next_task_id, last_add>>
    /\ UNCHANGED agent_loop_vars
    /\ UNCHANGED <<workflows, executions, running_executions, execution_tasks,
                   engine_metrics, exec_task, stop_wait, stop_calls, stop_returned>>

\* _execute_step after its executor has returned or raised. When it raised and
\* should_retry allows it, the step object is marked retry and, after the sleep of
\* get_retry_delay, the task calls _execute_step again. Otherwise the result is
\* stored on the step object and added to the execution
execute_step_end(e, key) ==
    /\ EngineFrame
    /\ UNCHANGED agent_vars
    /\ step_tasks[e][key] = "running"
    /\ LET w == executions[e].workflow_id
           step == get_step(StepsOf(w), key[1])
           result == executor_result(step)
       IN  /\ \A c \in ChildKeys(w, step) : step_tasks[e][c] \notin {"created", "running"}
           /\ IF /\ executor_raises(step)
                 /\ should_retry(step, step_objects[key[1]].attempt_count, "ValueError")
              THEN /\ get_retry_delay(step, step_objects[key[1]].attempt_count) > 0
                   /\ step_objects' = [step_objects EXCEPT ![key[1]].status = "retry"]
                   /\ step_tasks' = [step_tasks EXCEPT ![e][key] = "created"]
                   /\ UNCHANGED executions
              ELSE /\ step_objects' = [step_objects EXCEPT ![key[1]].status =
                          IF result = "success" THEN "completed" ELSE "failed"]
                   /\ executions' = [executions EXCEPT ![e] =
                          add_step_result(@, key[1], result)]
                   /\ step_tasks' = [step_tasks EXCEPT ![e][key] = "done"]
    /\ UNCHANGED <<workflows, step_attempts, running_executions, execution_tasks, engine_metrics,
                   exec_task, stop_wait, stop_calls, stop_returned>>

\* stop_workflow, the state update after the (possible) await of the task
mark_cancelled(e) ==
    /\ executions' = [executions EXCEPT ![e].status = "cancelled"]
    /\ running_executions' = running_executions \ {e}
    /\ engine_metrics' = [engine_metrics EXCEPT !.active_executions = @ - 1]
    /\ execution_tasks' = execution_tasks \ {e}

\* stop_workflow(execution_id) of a known execution. With a task registered:
\* task.cancel(), then the await of the task. The cancellation reaches the execution
\* task and, through gather, the step tasks in its scope: they end with
\* CancelledError, which no handler of _execute_step or _execute_workflow catches,
\* so nothing is recorded. (A step whose executor had already finished may still
\* record its result, wait_for returning it: the state is that of the step ending
\* just before the call.) Without a registered task the call runs through at once.
stop_workflow(e) ==
    /\ EngineFrame
    /\ UNCHANGED agent_vars
    /\ e \notin stop_wait
    /\ stop_calls < MaxStopCalls
    /\ stop_calls' = stop_calls + 1
    /\ IF e \in execution_tasks
       THEN /\ exec_task' = [exec_task EXCEPT ![e].pc = "cancelled"]
            /\ step_tasks' = [step_tasks EXCEPT ![e] =
                   [k \in DOMAIN step_tasks[e] |->
                       IF k \in CancelScope(step_tasks[e]) THEN "cancelled"
                       ELSE step_tasks[e][k]]]
            /\ stop_wait' = stop_wait \cup {e}
            /\ UNCHANGED <<executions, running_executions, execution_tasks,
                           engine_metrics>>
       ELSE /\ mark_cancelled(e)
            /\ UNCHANGED <<exec_task, stop_wait, step_tasks>>
    /\ UNCHANGED <<workflows, step_attempts, step_objects, stop_returned>>

\* stop_workflow resumes when the awaited task has ended, and returns true
stop_workflow_return(e) ==
    /\ EngineFrame
    /\ UNCHANGED agent_vars
    /\ e \in stop_wait
    /\ exec_task[e].pc = "cancelled"
    /\ mark_cancelled(e)
    /\ stop_wait' = stop_wait \ {e}
    /\ stop_returned' = stop_returned \cup {e}
    /\ UNCHANGED <<workflows, step_attempts, step_objects, exec_task, step_tasks, stop_calls>>

\* WorkflowEngine.shutdown: every registered task that is not done is cancelled
\* and gather awaits them; the cancellation reaches the step tasks as in
\* stop_workflow, and CancelledError passes the `except Exception` of
\* _execute_workflow, so the executions are not completed. Then both
\* running_executions and execution_tasks are cleared. The call is followed to
\* its return in one step: the cancelled tasks record nothing while it waits.
engine_shutdown ==
    /\ EngineFrame
    /\ UNCHANGED agent_vars
    /\ exec_task' = [e \in DOMAIN exec_task |->
          IF e \in execution_tasks /\ exec_task[e].pc # "done"
          THEN [exec_task[e] EXCEPT !.pc = "cancelled"]
          ELSE exec_task[e]]
    /\ step_tasks' = [e \in DOMAIN step_tasks |->
          IF e \in execution_tasks /\ exec_task[e].pc # "done"
          THEN [k \in DOMAIN step_tasks[e] |->
                   IF k \in CancelScope(step_tasks[e]) THEN "cancelled"
                   ELSE step_tasks[e][k]]
          ELSE step_tasks[e]]
    /\ running_executions' = {}
    /\ execution_tasks' = {}
    /\ UNCHANGED <<workflows, step_attempts, executions, engine_metrics, step_objects, stop_wait,
                   stop_calls, stop_returned>>

\* the engine under start_workflow, the execution of the steps and shutdown
EngineShutdownNext ==
    \/ \E w \in WorkflowIds \cup {"unknown"} : start_workflow(w)
    \/ \E e \in 1..Len(executions) : execute_workflow_begin(e)
    \/ \E e \in 1..Len(executions) : level_gathered(e)
    \/ \E e \in 1..Len(executions) :
          \E key \in TaskKeys(executions[e].workflow_id) : execute_step_begin(e, key)
    \/ \E e \in 1..Len(executions) :
          \E key \in TaskKeys(executions[e].workflow_id) : execute_step_end(e, key)
    \/ engine_shutdown

\* the engine under the creation of the workflow with a retry_config and its
\* executions
RetryNext ==
    \/ \E w \in RetryWorkflowIds : create_workflow(w)
    \/ \E w \in RetryWorkflowIds : start_workflow(w)
    \/ \E e \in 1..Len(executions) : execute_workflow_begin(e)
    \/ \E e \in 1..Len(executions) : level_gathered(e)
    \/ \E e \in 1..Len(executions) :
          \E key \in TaskKeys(executions[e].workflow_id) : execute_step_begin(e, key)
    \/ \E e \in 1..Len(executions) :
          \E key \in TaskKeys(executions[e].workflow_id) : execute_step_end(e, key)

EngineNext ==
    \/ \E w \in WorkflowIds \cup {"unknown"} : start_workflow(w)
    \/ \E e \in 1..Len(executions) : execute_workflow_begin(e)
    \/ \E e \in 1..Len(executions) : level_gathered(e)
    \/ \E e \in 1..Len(executions) :
          \E key \in TaskKeys(executions[e].workflow_id) : execute_step_begin(e, key)
    \/ \E e \in 1..Len(executions) :
          \E key \in TaskKeys(executions[e].workflow_id) : execute_step_end(e, key)
    \/ \E e \in 1..Len(executions) : stop_workflow(e)
    \/ \E e \in 1..Len(executions) : stop_workflow_return(e)

\* ======================================================================
\* BaseTool (src/tools/base_tool.py): run, the cache, the rate limiter, the
\* timeout of _execute_with_timeout and run_with_retry, under a clock.
\* Times are in ticks of the clock; the limiter's minute is TicksPerMinute ticks.
\* The statistics counters, which run writes and never reads, are left out.
\* ======================================================================
MaxRunCalls == 3
MaxClock == 3
MaxBody == 2
TicksPerMinute == 2

\* the keyword arguments of a call: two that pass validate_parameters, one that
\* does not
Kwargs == {"a", "b", "invalid"}
ValidKwargs == {"a", "b"}
\* how long execute takes: no time to speak of, or MaxBody ticks
BodyTimes == {0, MaxBody}
BodyOutcomes == {"success", "failure", "raise"}

\* ToolConfig, times in ticks
CachingConfig ==
    [timeout_seconds |-> 2, max_retries |-> 2, retry_delay |-> 1,
     rate_limit_per_minute |-> 2, cache_enabled |-> TRUE, cache_ttl_seconds |-> 1]
PlainConfig ==
    [timeout_seconds |-> 1, max_retries |-> 1, retry_delay |-> 1,
     rate_limit_per_minute |-> 1, cache_enabled |-> FALSE, cache_ttl_seconds |-> 1]
ToolConfigs == {CachingConfig, PlainConfig}

ErrorMessage(kind, value) == [kind |-> kind, value |-> value]
success_result(data) ==
    [success |-> TRUE, data |-> data, error_message |-> ErrorMessage("", 0)]
error_result(error_message) ==
    [success |-> FALSE, data |-> 0, error_message |-> error_message]
NoResult == error_result(ErrorMessage("none", 0))

NoEntry == [present |-> FALSE, result |-> NoResult, timestamp |-> 0]
NoRun ==
    [call |-> 0, kwargs |-> "a", called_at |-> 0, passed |-> FALSE, invoked |-> FALSE,
     body |-> 0, result |-> NoResult, returned_at |-> 0]
RetryIdle ==
    [pc |-> "idle", kwargs |-> "a", attempt |-> 0, call |-> 0, results |-> <<>>,
     waits |-> <<>>, wake |-> 0]

\* a tool as constructed, with one of the given configurations
ToolInit(configs) ==
    /\ clock = 0
    /\ config \in configs
    /\ tool_status = "idle"
    /\ cache = [k \in ValidKwargs |-> NoEntry]
    /\ rate_limit_timestamps = <<>>
    /\ current_task = 0
    /\ calls_made = 0
    /\ pending = {}
    /\ returned = NoRun
    /\ pass_log = <<>>
    /\ last_success = [k \in ValidKwargs |-> NoEntry]
    /\ retry = RetryIdle

\* _get_from_cache: the entry is served while its age is at most cache_ttl_seconds
CacheFresh_AtSaveOnly(entry) ==
    clock - entry.timestamp <= 0

CacheFresh(entry) ==
    clock - entry.timestamp <= config.cache_ttl_seconds

CacheHit(cache_key) ==
    /\ config.cache_enabled
    /\ cache[cache_key].present
    /\ CacheFresh(cache[cache_key])

\* the cache after _get_from_cache: an expired entry is deleted
cache_after_get(cache_key) ==
    IF config.cache_enabled /\ cache[cache_key].present /\ ~CacheFresh(cache[cache_key])
    THEN [cache EXCEPT ![cache_key] = NoEntry]
    ELSE cache

\* _save_to_cache: successful results only, stamped with the time of the save
save_to_cache(cache_key, result) ==
    IF config.cache_enabled /\ result.success
    THEN [cache EXCEPT ![cache_key] =
             [present |-> TRUE, result |-> result, timestamp |-> clock]]
    ELSE cache

\* _check_rate_limit: the timestamps of the last minute that are kept
InLastMinute(ts) == ts > clock - TicksPerMinute
recent_timestamps == SelectSeq(rate_limit_timestamps, InLastMinute)

LimitReached_OneMore(count) == count > config.rate_limit_per_minute

LimitReached(count) == count >= config.rate_limit_per_minute

\* wait_for(self.execute(**kwargs), timeout): the tick at which the task of
\* _execute_with_timeout ends, by the body's end or by the timeout
Deadline_NoTimeout(task) == task.called_at + task.body

Deadline(task) ==
    IF task.body < config.timeout_seconds
    THEN task.called_at + task.body
    ELSE task.called_at + config.timeout_seconds

\* the delay of run_with_retry after the failed attempt number attempt + 1
retry_wait(attempt) == config.retry_delay * (2 ^ attempt)

\* the attempts run_with_retry may still make after the attempt numbered attempt
MoreAttempts_OneExtra(attempt) == attempt < config.max_retries + 1

MoreAttempts(attempt) == attempt < config.max_retries

\* run_with_retry after an attempt has returned result
after_attempt(r, result) ==
    IF result.success
    THEN [r EXCEPT !.pc = "returned", !.results = Append(r.results, TRUE)]
    ELSE IF MoreAttempts(r.attempt)
    THEN [r EXCEPT !.pc = "sleeping", !.results = Append(r.results, FALSE),
                   !.waits = Append(r.waits, retry_wait(r.attempt)),
                   !.wake = clock + retry_wait(r.attempt)]
    ELSE [r EXCEPT !.pc = "returned", !.results = Append(r.results, FALSE)]

\* BaseTool.run up to its first suspension: validation, the rate limiter, the
\* cache lookup, then either a return or the task of _execute_with_timeout.
\* r is the state of run_with_retry if it makes the call, and retry otherwise.
run_from(kwargs, body, by_retry, r) ==
    LET c == calls_made + 1
        returns(passed, result) ==
            /\ returned' = [call |-> c, kwargs |-> kwargs, called_at |-> clock,
                            passed |-> passed, invoked |-> FALSE, body |-> 0,
                            result |-> result, returned_at |-> clock]
            /\ current_task' = 0
            /\ retry' = IF by_retry THEN after_attempt([r EXCEPT !.call = c], result)
                        ELSE r
            /\ UNCHANGED pending
    IN
    /\ calls_made < MaxRunCalls
    /\ calls_made' = c
    /\ UNCHANGED <<clock, config, last_success>>
    /\ IF kwargs \notin ValidKwargs
       THEN /\ tool_status' = "failed"
            /\ returns(FALSE, error_result(ErrorMessage("validation", 0)))
            /\ UNCHANGED <<rate_limit_timestamps, pass_log, cache>>
       ELSE IF LimitReached(Len(recent_timestamps))
       THEN /\ rate_limit_timestamps' = recent_timestamps
            /\ tool_status' = "failed"
            /\ returns(FALSE, error_result(
                   ErrorMessage("rate_limit", config.rate_limit_per_minute)))
            /\ UNCHANGED <<pass_log, cache>>
       ELSE /\ rate_limit_timestamps' = Append(recent_timestamps, clock)
            /\ pass_log' = Append(pass_log, clock)
            /\ cache' = cache_after_get(kwargs)
            /\ IF CacheHit(kwargs)
               THEN /\ tool_status' = "completed"
                    /\ returns(TRUE, cache[kwargs].result)
               ELSE /\ tool_status' = "running"
                    /\ pending' = pending \cup
                          {[call |-> c, kwargs |-> kwargs, called_at |-> clock,
                            body |-> body]}
                    /\ current_task' = c
                    /\ retry' = IF by_retry
                                THEN [r EXCEPT !.call = c, !.pc = "awaiting"]
                                ELSE r
                    /\ UNCHANGED returned

\* a caller calls tool.run(**kwargs)
run(kwargs, body) ==
    /\ ToolFrame
    /\ run_from(kwargs, body, FALSE, retry)

\* a caller calls tool.run_with_retry(**kwargs): the first attempt
run_with_retry(kwargs, body) ==
    /\ ToolFrame
    /\ retry.pc = "idle"
    /\ run_from(kwargs, body, TRUE, [retry EXCEPT !.kwargs = kwargs])

\* run_with_retry wakes from its sleep and makes the next attempt
retry_next_attempt(body) ==
    /\ ToolFrame
    /\ retry.pc = "sleeping"
    /\ clock = retry.wake
    /\ run_from(retry.kwargs, body, TRUE, [retry EXCEPT !.attempt = @ + 1])

\* a suspended run returns result
run_returns(task, result) ==
    /\ pending' = pending \ {task}
    /\ returned' = [call |-> task.call, kwargs |-> task.kwargs,
                    called_at |-> task.called_at, passed |-> TRUE, invoked |-> TRUE,
                    body |-> task.body, result |-> result, returned_at |-> clock]
    /\ current_task' = 0
    /\ retry' = IF retry.pc = "awaiting" /\ retry.call = task.call
                THEN after_attempt(retry, result) ELSE retry
    /\ UNCHANGED <<clock, config, rate_limit_timestamps, pass_log, calls_made>>

\* run resumes from `await self.current_task` with what execute returned or
\* raised; run_with_retry, if it made the call, goes on with the result
run_end(task, outcome) ==
    LET result == IF outcome = "success" THEN success_result(task.call)
                  ELSE IF outcome = "failure"
                  THEN error_result(ErrorMessage("execute", 0))
                  ELSE error_result(ErrorMessage("raised", 0))
    IN
    /\ ToolFrame
    /\ task.body <= config.timeout_seconds
    /\ clock = task.called_at + task.body
    /\ run_returns(task, result)
    /\ tool_status' = IF outcome = "success" THEN "completed" ELSE "failed"
    /\ cache' = IF outcome = "raise" THEN cache ELSE save_to_cache(task.kwargs, result)
    /\ last_success' =
          IF outcome = "success"
          THEN [last_success EXCEPT ![task.kwargs] =
                   [present |-> TRUE, result |-> result, timestamp |-> clock]]
          ELSE last_success

\* wait_for raises TimeoutError in the task; run catches it
run_timeout(task) ==
    /\ ToolFrame
    /\ task.body >= config.timeout_seconds
    /\ clock = Deadline(task)
    /\ run_returns(task, error_result(ErrorMessage("timeout", config.timeout_seconds)))
    /\ tool_status' = "timeout"
    /\ UNCHANGED <<cache, last_success>>

\* ======================================================================
\* WorkflowEngine._execute_step (workflow_engine.py) under the clock: one call,
\* on a step without a retry configuration, whose executor takes `body` ticks.
\* ======================================================================
MaxTimedCalls == 1

DefaultStepTimeout == 300

\* WorkflowStep.timeout_seconds, 0 for None
StepTimeouts == {0, 1}

StepIdle ==
    [pc |-> "idle", timeout_seconds |-> 0, started_at |-> 0, body |-> 0,
     result |-> NoResult, returned_at |-> 0]

\* timeout = step.timeout_seconds or 300
step_timeout(step) ==
    IF step.timeout_seconds = 0 THEN DefaultStepTimeout ELSE step.timeout_seconds

\* wait_for(executor(step, execution, workflow), timeout): the tick at which it
\* ends, by the executor's end or by the timeout
StepDeadline(step) ==
    IF step.body < step_timeout(step)
    THEN step.started_at + step.body
    ELSE step.started_at + step_timeout(step)

\* _execute_step is called and suspends in wait_for
execute_step_call(timeout_seconds, body) ==
    /\ TimedStepFrame
    /\ timed_step.pc = "idle"
    /\ timed_step' = [timed_step EXCEPT !.pc = "running",
                                        !.timeout_seconds = timeout_seconds,
                                        !.started_at = clock, !.body = body]

\* the executor returns a result or raises; without a retry configuration
\* should_retry is false and the exception becomes a failed result
execute_step_result(outcome) ==
    /\ TimedStepFrame
    /\ timed_step.pc = "running"
    /\ timed_step.body <= step_timeout(timed_step)
    /\ clock = timed_step.started_at + timed_step.body
    /\ timed_step' =
          [timed_step EXCEPT
              !.pc = "returned",
              !.result = IF outcome = "success" THEN success_result(0)
                         ELSE IF outcome = "failure"
                         THEN error_result(ErrorMessage("execute", 0))
                         ELSE error_result(ErrorMessage("raised", 0)),
              !.returned_at = clock]

\* wait_for raises TimeoutError; _execute_step records the failed result
execute_step_timeout ==
    /\ TimedStepFrame
    /\ timed_step.pc = "running"
    /\ timed_step.body >= step_timeout(timed_step)
    /\ clock = StepDeadline(timed_step)
    /\ timed_step' =
          [timed_step EXCEPT
              !.pc = "returned",
              !.result = error_result(ErrorMessage("timeout", step_timeout(timed_step))),
              !.returned_at = clock]

\* time passes, but not past the end of a task or of a sleep that is due
Tick ==
    /\ ToolFrame
    /\ clock < MaxClock
    /\ \A task \in pending : clock < Deadline(task)
    /\ retry.pc = "sleeping" => clock < retry.wake
    /\ timed_step.pc = "running" => clock < StepDeadline(timed_step)
    /\ clock' = clock + 1
    /\ UNCHANGED <<config, tool_status, cache, rate_limit_timestamps, current_task,
                   calls_made, pending, returned, pass_log, last_success, retry>>

ToolNext ==
    \/ \E kwargs \in Kwargs : \E body \in BodyTimes : run(kwargs, body)
    \/ \E kwargs \in Kwargs : \E body \in BodyTimes : run_with_retry(kwargs, body)
    \/ \E body \in BodyTimes : retry_next_attempt(body)
    \/ \E task \in pending : \E outcome \in BodyOutcomes : run_end(task, outcome)
    \/ \E task \in pending : run_timeout(task)
    \/ Tick

\* a tool called up to MaxTimedCalls times and one step, under the same clock
TimeoutNext ==
    \/ \E kwargs \in Kwargs : \E body \in BodyTimes :
          calls_made < MaxTimedCalls /\ run(kwargs, body)
    \/ \E task \in pending : \E outcome \in BodyOutcomes : run_end(task, outcome)
    \/ \E task \in pending : run_timeout(task)
    \/ \E timeout_seconds \in StepTimeouts : \E body \in BodyTimes :
          execute_step_call(timeout_seconds, body)
    \/ \E outcome \in BodyOutcomes : execute_step_result(outcome)
    \/ execute_step_timeout
    \/ Tick

\* ======================================================================
\* ToolManager (src/tools/tool_manager.py): the registry, execute_tool,
\* execute_tools_batch and cancel_execution. An execution's id is its index in
\* tool_executions (the code takes the caller's id or derives one from the clock).
\* ======================================================================
MaxToolExecutions == 3
MaxBatch == 2

max_concurrent_executions == 10

\* the tools _register_default_tools constructs, by their tool_name, in its order
default_tools == <<"web_scraper", "api_client", "database_tool", "file_processor">>

DefaultTools == {default_tools[i] : i \in 1..Len(default_tools)}

\* tool objects: BaseTool and the four default tools have `tool_name` and no
\* `name`; "custom" stands for a tool class that defines `name` as well
ToolObjects == DefaultTools \cup {"custom"}
NamedTools == {"custom"}

\* the tools the callers of the manager ask for
RequestedTools == {"database_tool", "custom"}

Unregistered == [registered |-> FALSE, enabled |-> FALSE, usage_count |-> 0,
                 error_count |-> 0]

\* ToolRegistration(tool, registered_at, metadata): enabled, nothing counted
NewRegistration == [registered |-> TRUE, enabled |-> TRUE, usage_count |-> 0,
                    error_count |-> 0]

\* self.tools after register_tool(tool): register_tool reads tool.name, an
\* AttributeError for a tool without it, which its `except Exception` catches (as
\* it does the ValueError for a name already registered): nothing is registered
tools_after_register(tools, tool) ==
    IF tool \in NamedTools /\ ~tools[tool].registered
    THEN [tools EXCEPT ![tool] = NewRegistration]
    ELSE tools

\* _register_default_tools: register_tool for each default tool in turn
RECURSIVE register_default_tools(_, _)
register_default_tools(tools, i) ==
    IF i > Len(default_tools) THEN tools
    ELSE register_default_tools(tools_after_register(tools, default_tools[i]), i + 1)

\* the manager as constructed: the registry is what _register_default_tools made
\* of the empty one
ManagerInit ==
    /\ manager_status = "ready"
    /\ registrations = register_default_tools([t \in ToolObjects |-> Unregistered], 1)
    /\ active_executions = {}
    /\ tool_executions = <<>>
    /\ execution_history = <<>>
    /\ manager_stats = [total_executions |-> 0, successful_executions |-> 0,
                        failed_executions |-> 0]
    /\ emitted = <<>>
    /\ requests = <<>>
    /\ cancel_returned = {}

\* register_tool reads tool.name: AttributeError for a tool without it, caught,
\* and the tool is not registered
register_tool(tool) ==
    /\ ManagerFrame
    /\ registrations' = tools_after_register(registrations, tool)
    /\ UNCHANGED <<manager_status, active_executions, tool_executions,
                   execution_history, manager_stats, emitted, requests,
                   cancel_returned>>

enable_tool(tool_name) ==
    /\ ManagerFrame
    /\ registrations[tool_name].registered
    /\ registrations' = [registrations EXCEPT ![tool_name].enabled = TRUE]
    /\ UNCHANGED <<manager_status, active_executions, tool_executions,
                   execution_history, manager_stats, emitted, requests,
                   cancel_returned>>

disable_tool(tool_name) ==
    /\ ManagerFrame
    /\ registrations[tool_name].registered
    /\ registrations' = [registrations EXCEPT ![tool_name].enabled = FALSE]
    /\ UNCHANGED <<manager_status, active_executions, tool_executions,
                   execution_history, manager_stats, emitted, requests,
                   cancel_returned>>

Event(event_type, execution_id) ==
    [event_type |-> event_type, execution_id |-> execution_id]

\* self.status != ToolManagerStatus.READY
ManagerReady(manager_state) == manager_state = "ready"

\* execute_tool up to its first suspension, on the manager state m: the checks,
\* then the ToolExecution, BUSY, execution_started and the wait_for of the
\* tool's execute. What the call did is appended to m.requests.

begin_execution(m, tool_name) ==
    LET id == Len(m.execs) + 1
        request(execution_id, error) ==
            [tool_name |-> tool_name,
             eligible |-> registrations[tool_name].registered
                             /\ registrations[tool_name].enabled,
             active_before |-> Cardinality(m.active),
             execution_id |-> execution_id, error |-> error]
        reject(error) == [m EXCEPT !.requests = Append(@, request(0, error))]
    IN
    IF ~ManagerReady(m.status) THEN reject("not_ready")
    ELSE IF Cardinality(m.active) >= max_concurrent_executions
    THEN reject("max_concurrent")
    ELSE IF ~registrations[tool_name].registered THEN reject("not_found")
    ELSE IF ~registrations[tool_name].enabled THEN reject("disabled")
    ELSE [m EXCEPT
            !.status = "busy",
            !.active = @ \cup {id},
            !.execs = Append(@, [tool_name |-> tool_name, status |-> "idle",
                                 pc |-> "awaiting", body |-> "none",
                                 returned |-> "none"]),
            !.emitted = Append(@, Event("execution_started", id)),
            !.requests = Append(@, request(id, ""))]

\* the calls of execute_tool that are started one after the other
RECURSIVE begin_all(_, _, _)
begin_all(m, tool_names, k) ==
    IF k > Len(tool_names) THEN m
    ELSE begin_all(begin_execution(m, tool_names[k]), tool_names, k + 1)

begin_requests(tool_names) ==
    LET m == begin_all([status |-> manager_status, active |-> active_executions,
                        execs |-> tool_executions, emitted |-> emitted,
                        requests |-> <<>>], tool_names, 1)
    IN
    /\ Len(tool_executions) < MaxToolExecutions
    /\ manager_status' = m.status
    /\ active_executions' = m.active
    /\ tool_executions' = m.execs
    /\ emitted' = m.emitted
    /\ requests' = m.requests
    /\ UNCHANGED <<registrations, execution_history, manager_stats, cancel_returned>>

\* a caller calls execute_tool(tool_name, parameters)
execute_tool(tool_name) ==
    /\ ManagerFrame
    /\ begin_requests(<<tool_name>>)

\* execute_tools_batch(tool_requests): the semaphore admits min(len, ceiling)
\* requests at once, which is all of them for a batch no longer than the ceiling;
\* gather starts the execute_tool calls one after the other
BatchRequests ==
    UNION {[1..n -> RequestedTools] : n \in 2..MaxBatch}

execute_tools_batch(tool_names) ==
    /\ ManagerFrame
    /\ Len(tool_names) <= max_concurrent_executions
    /\ begin_requests(tool_names)

\* self.active_executions.pop(execution_id, None)
remove_execution_Kept(active, execution_id) == active

remove_execution(active, execution_id) == active \ {execution_id}

ToolBodyOutcomes == {"success", "failure", "raise", "timeout"}

\* execute_tool resumes from wait_for: execute has returned a result or raised, or
\* the timeout has passed
execute_tool_end(e, outcome) ==
    LET execution == tool_executions[e]
        tool_name == execution.tool_name
        success == outcome = "success"
    IN
    /\ ManagerFrame
    /\ execution.pc = "awaiting"
    /\ tool_executions' =
          [tool_executions EXCEPT
              ![e].pc = "returned",
              ![e].body = outcome,
              ![e].status = IF outcome \in {"success", "failure"} THEN "completed"
                            ELSE IF outcome = "timeout" THEN "timeout"
                            ELSE "error",
              ![e].returned = IF success THEN "success" ELSE "failed"]
    /\ manager_stats' =
          [manager_stats EXCEPT
              !.successful_executions = IF success THEN @ + 1 ELSE @,
              !.failed_executions = IF success THEN @ ELSE @ + 1,
              !.total_executions = IF outcome = "raise" THEN @ ELSE @ + 1]
    /\ registrations' =
          [registrations EXCEPT
              ![tool_name].error_count = IF success THEN @ ELSE @ + 1,
              ![tool_name].usage_count = IF outcome = "raise" THEN @ ELSE @ + 1]
    /\ active_executions' = remove_execution(active_executions, e)
    /\ execution_history' = Append(execution_history, e)
    /\ emitted' =
          IF success THEN Append(emitted, Event("execution_completed", e))
          ELSE IF outcome = "timeout"
          THEN emitted \o <<Event("execution_timeout", e), Event("execution_failed", e)>>
          ELSE Append(emitted, Event("execution_failed", e))
    /\ manager_status' = "ready"
    /\ UNCHANGED <<requests, cancel_returned>>

\* cancel_execution(execution_id) on an active execution: tool.cancel() is a
\* coroutine function called without await, so nothing of it runs; the execution
\* is marked cancelled, taken from the active map and appended to the history
cancel_execution(e) ==
    /\ ManagerFrame
    /\ e \in active_executions
    /\ tool_executions' = [tool_executions EXCEPT ![e].status = "cancelled"]
    /\ active_executions' = remove_execution(active_executions, e)
    /\ execution_history' = Append(execution_history, e)
    /\ cancel_returned' = cancel_returned \cup {e}
    /\ UNCHANGED <<manager_status, registrations, manager_stats, emitted, requests>>

\* cleanup_old_executions (run hourly by the auto-cleanup task): the history keeps
\* the executions started after the cutoff, now minus history_retention_days.
\* Executions start in the order of their ids, so those started up to the cutoff
\* are the first k, for a k that the time of the call decides.
cleanup_old_executions(k) ==
    /\ ManagerFrame
    /\ execution_history' = SelectSeq(execution_history, LAMBDA e : e > k)
    /\ UNCHANGED <<manager_status, registrations, active_executions, tool_executions,
                   manager_stats, emitted, requests, cancel_returned>>

ManagerNext ==
    \/ \E tool \in ToolObjects : register_tool(tool)
    \/ \E tool_name \in RequestedTools : enable_tool(tool_name)
    \/ \E tool_name \in RequestedTools : disable_tool(tool_name)
    \/ \E tool_name \in RequestedTools : execute_tool(tool_name)
    \/ \E tool_names \in BatchRequests : execute_tools_batch(tool_names)
    \/ \E e \in 1..Len(tool_executions) :
          \E outcome \in ToolBodyOutcomes : execute_tool_end(e, outcome)
    \/ \E e \in 1..Len(tool_executions) : cancel_execution(e)

\* ToolManager.shutdown (no await in it): the status is SHUTDOWN, every active
\* execution goes through cancel_execution, in the order of the active map,
\* and the tools are cleaned up. The execute_tool calls that wait for their
\* tool are not resumed by it.
manager_shutdown ==
    LET active == SelectSeq([e \in 1..Len(tool_executions) |-> e],
                            LAMBDA e : e \in active_executions)
    IN
    /\ ManagerFrame
    /\ manager_status' = "shutdown"
    /\ tool_executions' =
          [e \in 1..Len(tool_executions) |->
              IF e \in active_executions
              THEN [tool_executions[e] EXCEPT !.status = "cancelled"]
              ELSE tool_executions[e]]
    /\ active_executions' = {}
    /\ execution_history' = execution_history \o active
    /\ cancel_returned' = cancel_returned \cup active_executions
    /\ UNCHANGED <<registrations, manager_stats, emitted, requests>>

\* the manager under registration, single executions and shutdown
ShutdownNext ==
    \/ \E tool \in ToolObjects : register_tool(tool)
    \/ \E tool_name \in RequestedTools : execute_tool(tool_name)
    \/ \E e \in 1..Len(tool_executions) :
          \E outcome \in ToolBodyOutcomes : execute_tool_end(e, outcome)
    \/ manager_shutdown

\* the execution history under registration, single executions, cancellation
\* and the cleanup
HistoryNext ==
    \/ \E tool \in ToolObjects : register_tool(tool)
    \/ \E tool_name \in RequestedTools : execute_tool(tool_name)
    \/ \E e \in 1..Len(tool_executions) :
          \E outcome \in ToolBodyOutcomes : execute_tool_end(e, outcome)
    \/ \E e \in 1..Len(tool_executions) : cancel_execution(e)
    \/ \E k \in 1..Len(tool_executions) : cleanup_old_executions(k)

\* ======================================================================
\* WorkflowMonitor (src/workflow/workflow_monitor.py): the event log and its cap,
\* the metrics per workflow, the alert rules with their cooldown and the
\* monitoring loop. monitor_now is the wall clock in ticks, TicksPerMinute to the
\* minute; the loop sleeps one minute between two evaluations and runs when its
\* sleep is over. No event handler is registered, so an evaluation of the loop
\* runs without a suspension.
\* ======================================================================
MaxMonitorSlack == 1
MaxRecorded == 3
MaxUpdates == 2

\* self.max_events (10,000 in the code) and AlertRule.cooldown_minutes (5 in the
\* code), at the scale of the model
max_events == 2
cooldown_minutes == 2

\* the cooldown in ticks, and the time the model follows the monitor for
cooldown_ticks == cooldown_minutes * TicksPerMinute

MonitorEnd == cooldown_ticks + MaxMonitorSlack

MonitoredWorkflows == {"w1", "w2"}

\* the values of a sequence
Range(seq) == {seq[i] : i \in 1..Len(seq)}

\* the default rules in the order of self.alert_rules
default_rules ==
    <<[rule_id |-> "high_error_rate", severity |-> "high"],
      [rule_id |-> "long_execution_time", severity |-> "medium"],
      [rule_id |-> "workflow_failure", severity |-> "high"],
      [rule_id |-> "step_timeout", severity |-> "medium"]>>

RuleIds == {default_rules[j].rule_id : j \in 1..Len(default_rules)}

\* the names a rule's condition can read: workflow_id and the fields of
\* PerformanceMetrics.to_dict()
ContextKeys ==
    {"workflow_id", "execution_count", "success_count", "failure_count",
     "average_duration", "min_duration", "max_duration", "total_duration",
     "error_rate", "throughput", "last_execution"}

\* get_duration() of the executions handed to update_workflow_metrics, in seconds
Durations == {0, 600}

MonitorInit ==
    /\ monitor_now = 0
    /\ events = <<>>
    /\ monitor_metrics = <<>>
    /\ last_triggered = <<>>
    /\ monitor_loop = [is_monitoring |-> FALSE, task |-> "none", wake |-> 0,
                       recorded |-> 0, updates |-> 0]

MonitorFrame ==
    UNCHANGED <<agent_vars, order_vars, engine_vars, tool_vars, timed_step,
                manager_vars, project_vars, request_vars, app_vars>>

\* MonitoringEvent: id is the order of recording; rule_id is "" unless an alert
MonitoringEvent(id, workflow_id, rule_id, severity) ==
    [id |-> id, timestamp |-> monitor_now, workflow_id |-> workflow_id,
     rule_id |-> rule_id, severity |-> severity]

\* eval(rule.condition, {"__builtins__": {}}, context): a condition that reads a
\* name the context does not have raises NameError, which should_trigger turns
\* into False
condition_holds(rule_id, perf) ==
    CASE rule_id = "high_error_rate" ->
            /\ "error_rate" \in ContextKeys
            /\ perf.failure_count * 10 > perf.execution_count
      [] rule_id = "long_execution_time" ->
            /\ "average_duration" \in ContextKeys
            /\ perf.average_count > 0
            /\ perf.total_duration > 300 * perf.average_count
      [] rule_id = "workflow_failure" ->
            /\ "status" \in ContextKeys
            /\ perf.failure_count > 0
      [] rule_id = "step_timeout" ->
            /\ "step_status" \in ContextKeys
            /\ FALSE

\* the cooldown test of should_trigger: now - last_triggered < cooldown
InCooldown_Never(triggered, rule_id) == FALSE

InCooldown(triggered, rule_id) ==
    /\ rule_id \in DOMAIN triggered
    /\ monitor_now - triggered[rule_id] < cooldown_ticks

\* AlertRule.should_trigger (every default rule is enabled)
should_trigger(triggered, rule_id, perf) ==
    /\ ~InCooldown(triggered, rule_id)
    /\ condition_holds(rule_id, perf)

\* _check_metric_alerts from workflow i, rule j on: m holds the events and the
\* last_triggered of the rules; _trigger_alert stamps the rule and records the
\* alert event
RECURSIVE check_metric_alerts(_, _, _)
check_metric_alerts(m, i, j) ==
    IF i > Len(monitor_metrics) THEN m
    ELSE IF j > Len(default_rules) THEN check_metric_alerts(m, i + 1, 1)
    ELSE LET rule == default_rules[j]
             perf == monitor_metrics[i]
         IN  IF should_trigger(m.triggered, rule.rule_id, perf)
             THEN check_metric_alerts(
                     [triggered |-> [r \in DOMAIN m.triggered \cup {rule.rule_id} |->
                                        IF r = rule.rule_id THEN monitor_now
                                        ELSE m.triggered[r]],
                      events |-> Append(m.events,
                                    MonitoringEvent(m.next_id, perf.workflow_id,
                                                    rule.rule_id, rule.severity)),
                      next_id |-> m.next_id + 1],
                     i, j + 1)
             ELSE check_metric_alerts(m, i, j + 1)

\* _cleanup_old_events
cleanup_old_events(log) ==
    IF Len(log) > max_events
    THEN SubSeq(log, Len(log) - max_events + 1, Len(log))
    ELSE log

\* list.sort(key=timestamp, reverse=True): newest first, equal timestamps in the
\* order they had
RECURSIVE sort_newest_first(_, _)
sort_newest_first(log, t) ==
    LET at_t == SelectSeq(log, LAMBDA e : e.timestamp = t)
    IN  IF t = 0 THEN at_t ELSE at_t \o sort_newest_first(log, t - 1)

\* ---- operations of the monitor
\* start_monitoring: nothing when already monitoring; otherwise the loop task is
\* created and runs its first evaluation when it is scheduled
start_monitoring ==
    /\ MonitorFrame
    /\ monitor_loop' =
          IF monitor_loop.is_monitoring THEN monitor_loop
          ELSE [monitor_loop EXCEPT !.is_monitoring = TRUE, !.task = "running",
                                    !.wake = monitor_now]
    /\ UNCHANGED <<monitor_now, events, monitor_metrics, last_triggered>>

\* stop_monitoring: the flag is cleared, the task is cancelled and awaited
stop_monitoring ==
    /\ MonitorFrame
    /\ monitor_loop' = [monitor_loop EXCEPT !.is_monitoring = FALSE, !.task = "none",
                                            !.wake = 0]
    /\ UNCHANGED <<monitor_now, events, monitor_metrics, last_triggered>>

\* one pass of _monitoring_loop once its sleep is over: the alert check, the
\* cleanup, then the sleep of a minute
monitoring_loop ==
    LET m == check_metric_alerts(
                [triggered |-> last_triggered, events |-> events,
                 next_id |-> monitor_loop.recorded + 1], 1, 1)
    IN
    /\ MonitorFrame
    /\ monitor_loop.task = "running"
    /\ monitor_loop.is_monitoring
    /\ monitor_now >= monitor_loop.wake
    /\ last_triggered' = m.triggered
    /\ events' = cleanup_old_events(m.events)
    /\ monitor_loop' = [monitor_loop EXCEPT !.wake = monitor_now + TicksPerMinute,
                                            !.recorded = m.next_id - 1]
    /\ UNCHANGED <<monitor_now, monitor_metrics>>

\* record_workflow_event(event_type, workflow_id, ...): record_event appends
record_workflow_event(workflow_id) ==
    /\ MonitorFrame
    /\ monitor_loop.recorded < MaxRecorded
    /\ events' = Append(events, MonitoringEvent(monitor_loop.recorded + 1,
                                                workflow_id, "", "low"))
    /\ monitor_loop' = [monitor_loop EXCEPT !.recorded = @ + 1]
    /\ UNCHANGED <<monitor_now, monitor_metrics, last_triggered>>

\* PerformanceMetrics.update; the average is recomputed only for a duration
\* that is truthy
metrics_update(perf, execution_status, duration) ==
    [perf EXCEPT
        !.execution_count = @ + 1,
        !.failure_count = IF execution_status = "completed" THEN @ ELSE @ + 1,
        !.total_duration = @ + duration,
        !.average_count = IF duration # 0 THEN perf.execution_count + 1 ELSE @]

\* update_workflow_metrics(execution): the record of the workflow is created at
\* its first execution
update_workflow_metrics(workflow_id, execution_status, duration) ==
    LET known == {i \in 1..Len(monitor_metrics) :
                     monitor_metrics[i].workflow_id = workflow_id}
        fresh == [workflow_id |-> workflow_id, execution_count |-> 0,
                  failure_count |-> 0, total_duration |-> 0, average_count |-> 0]
    IN
    /\ MonitorFrame
    /\ monitor_loop.updates < MaxUpdates
    /\ monitor_metrics' =
          IF known = {}
          THEN Append(monitor_metrics, metrics_update(fresh, execution_status, duration))
          ELSE [i \in 1..Len(monitor_metrics) |->
                   IF i \in known
                   THEN metrics_update(monitor_metrics[i], execution_status, duration)
                   ELSE monitor_metrics[i]]
    /\ monitor_loop' = [monitor_loop EXCEPT !.updates = @ + 1]
    /\ UNCHANGED <<monitor_now, events, last_triggered>>

\* get_events(...): without a filter filtered_events is self.events itself, and
\* the sort is done in place on the log; with a filter a new list is sorted
get_events(filtered) ==
    /\ MonitorFrame
    /\ events' = IF filtered THEN events ELSE sort_newest_first(events, monitor_now)
    /\ UNCHANGED <<monitor_now, monitor_metrics, last_triggered, monitor_loop>>

\* a tick passes, unless the loop is due
MonitorTick ==
    /\ MonitorFrame
    /\ monitor_now < MonitorEnd
    /\ ~(monitor_loop.task = "running" /\ monitor_now >= monitor_loop.wake)
    /\ monitor_now' = monitor_now + 1
    /\ UNCHANGED <<events, monitor_metrics, last_triggered, monitor_loop>>

\* the monitor fed with the metrics of finished executions: the alerts
MonitorNext ==
    \/ start_monitoring
    \/ stop_monitoring
    \/ monitoring_loop
    \/ \E workflow_id \in MonitoredWorkflows :
          \E execution_status \in {"completed", "failed"} : \E duration \in Durations :
             update_workflow_metrics(workflow_id, execution_status, duration)
    \/ MonitorTick

\* the monitor fed with workflow events and queried: the event log
EventLogNext ==
    \/ start_monitoring
    \/ stop_monitoring
    \/ monitoring_loop
    \/ \E workflow_id \in MonitoredWorkflows : record_workflow_event(workflow_id)
    \/ \E filtered \in BOOLEAN : get_events(filtered)
    \/ MonitorTick

\* ======================================================================
\* ManagerAgent (src/agents/manager_agent.py): the projects of
\* _handle_workflow_automation and the completion reports of the workers.
\* ======================================================================
MaxReports == 3

\* the projects and the task ids of their subtasks, as _decompose_workflow
\* returned them: ids are distinct within and across the projects
ProjectSubtasks ==
    [project_a |-> <<"a1", "a2">>, project_b |-> <<"b1">>]

ProjectIds == DOMAIN ProjectSubtasks

SubtaskIds == UNION {Range(ProjectSubtasks[p]) : p \in ProjectIds}

\* no plan has been made yet
NoPlan == [planned |-> FALSE, execution_order |-> <<>>, execution_groups |-> <<>>]

ProjectInit ==
    /\ active_projects = <<>>
    /\ task_assignments = {}
    /\ performance_metrics = [completed_projects |-> 0]
    /\ plan_subtasks = <<>>
    /\ execution_plan = NoPlan

ProjectFrame ==
    UNCHANGED <<agent_vars, order_vars, engine_vars, tool_vars, timed_step,
                manager_vars, monitor_vars, request_vars, app_vars>>

\* _handle_workflow_automation: the project is registered in_progress with its
\* subtasks; _distribute_tasks records an assignment for every subtask that
\* _allocate_resources gave a worker (all of them when a worker is idle, none
\* otherwise)
handle_workflow_automation(project_id, worker_idle) ==
    /\ ProjectFrame
    /\ \A i \in 1..Len(active_projects) : active_projects[i].project_id # project_id
    /\ active_projects' = Append(active_projects,
          [project_id |-> project_id, subtasks |-> ProjectSubtasks[project_id],
           completed_tasks |-> <<>>, status |-> "in_progress"])
    /\ task_assignments' =
          IF worker_idle
          THEN task_assignments \cup Range(ProjectSubtasks[project_id])
          ELSE task_assignments
    /\ UNCHANGED <<performance_metrics, plan_subtasks, execution_plan>>

\* the first project of active_projects that has the task among its subtasks
\* (0: none)
ProjectOf(task_id) ==
    LET owners == {i \in 1..Len(active_projects) :
                      task_id \in Range(active_projects[i].subtasks)}
    IN  IF owners = {} THEN 0 ELSE CHOOSE i \in owners : \A k \in owners : i <= k

\* the completion test of _update_project_progress
AllReported(project_info) ==
    Len(project_info.completed_tasks) >= Len(project_info.subtasks)

\* _update_project_progress(task_id, "completed", result) on project i
update_project_progress(i, task_id) ==
    LET reported == [active_projects[i] EXCEPT !.completed_tasks = Append(@, task_id)]
    IN  IF AllReported(reported)
        THEN /\ active_projects' =
                   [active_projects EXCEPT ![i] = [reported EXCEPT !.status = "completed"]]
             /\ performance_metrics' =
                   [performance_metrics EXCEPT !.completed_projects = @ + 1]
        ELSE /\ active_projects' = [active_projects EXCEPT ![i] = reported]
             /\ UNCHANGED performance_metrics

\* _handle_task_completion: a task_completed message of a worker for task_id
handle_task_completion(task_id) ==
    /\ ProjectFrame
    /\ \A i \in 1..Len(active_projects) :
          Len(active_projects[i].completed_tasks) < MaxReports
    /\ IF task_id \in task_assignments /\ ProjectOf(task_id) # 0
       THEN update_project_progress(ProjectOf(task_id), task_id)
       ELSE UNCHANGED <<active_projects, performance_metrics>>
    /\ UNCHANGED <<task_assignments, plan_subtasks, execution_plan>>

\* ---- the execution plan of the subtasks
\* the number of subtasks of a decomposition, and their task ids
MaxSubtasks == 3

PlanTaskIds == 1..MaxSubtasks

\* the keys of dependency_graph: the task ids of the subtasks
GraphNodes(dependency_graph) ==
    {dependency_graph[i].task_id : i \in 1..Len(dependency_graph)}

\* dependency_graph.get(task_id, [])
GraphDeps(dependency_graph, task_id) ==
    UNION {dependency_graph[i].dependencies :
              i \in {k \in 1..Len(dependency_graph) :
                        dependency_graph[k].task_id = task_id}}

\* _topological_sort, the counting loop: in_degree[dep] is raised once for every
\* node that lists dep among its dependencies
in_degree(dependency_graph) ==
    [node \in GraphNodes(dependency_graph) |->
        Cardinality({i \in 1..Len(dependency_graph) :
                        node \in dependency_graph[i].dependencies})]

\* _topological_sort, the inner loop over the neighbours from position i on: a
\* neighbour that lists node among its dependencies is counted down and queued at 0
RECURSIVE visit_neighbors(_, _, _, _, _)
visit_neighbors(dependency_graph, node, i, degree, queue) ==
    IF i > Len(dependency_graph) THEN [in_degree |-> degree, queue |-> queue]
    ELSE LET neighbor == dependency_graph[i].task_id
         IN  IF node \in dependency_graph[i].dependencies
             THEN LET lowered == [degree EXCEPT ![neighbor] = @ - 1]
                  IN  visit_neighbors(dependency_graph, node, i + 1, lowered,
                         IF lowered[neighbor] = 0 THEN Append(queue, neighbor)
                         ELSE queue)
             ELSE visit_neighbors(dependency_graph, node, i + 1, degree, queue)

\* _topological_sort, the while loop
RECURSIVE sort_loop(_, _, _, _)
sort_loop(dependency_graph, degree, queue, result) ==
    IF queue = <<>> THEN result
    ELSE LET visited == visit_neighbors(dependency_graph, Head(queue), 1, degree,
                                        Tail(queue))
         IN  sort_loop(dependency_graph, visited.in_degree, visited.queue,
                       Append(result, Head(queue)))

\* _topological_sort(dependency_graph): the queue starts with the nodes of
\* in_degree 0, in the order of the dictionary
topological_sort(dependency_graph) ==
    LET degree == in_degree(dependency_graph)
        nodes == [i \in 1..Len(dependency_graph) |-> dependency_graph[i].task_id]
    IN  sort_loop(dependency_graph, degree,
                  SelectSeq(nodes, LAMBDA node : degree[node] = 0), <<>>)

\* list(remaining): the elements of a set in some order (here ascending)
RECURSIVE ListOf(_)
ListOf(S) ==
    IF S = {} THEN <<>>
    ELSE LET x == CHOOSE y \in S : \A z \in S : y <= z
         IN  <<x>> \o ListOf(S \ {x})

\* _create_execution_groups, the while loop
RECURSIVE group_loop(_, _, _, _)
group_loop(execution_order, dependency_graph, remaining, groups) ==
    IF remaining = {} THEN groups
    ELSE LET current_group ==
                 SelectSeq(execution_order, LAMBDA task_id :
                    /\ task_id \in remaining
                    /\ GraphDeps(dependency_graph, task_id) \cap remaining = {})
         IN  IF current_group # <<>>
             THEN group_loop(execution_order, dependency_graph,
                             remaining \ Range(current_group),
                             Append(groups, current_group))
             ELSE Append(groups, ListOf(remaining))

\* _create_execution_groups(execution_order, dependency_graph)
create_execution_groups(execution_order, dependency_graph) ==
    group_loop(execution_order, dependency_graph, Range(execution_order), <<>>)

\* _decompose_workflow, one turn of its loop: a subtask with the id and the
\* dependencies of the decomposition is appended (the ids are distinct)
decompose_subtask(task_id, dependencies) ==
    /\ ProjectFrame
    /\ ~execution_plan.planned
    /\ Len(plan_subtasks) < MaxSubtasks
    /\ task_id \notin GraphNodes(plan_subtasks)
    /\ plan_subtasks' = Append(plan_subtasks,
                                [task_id |-> task_id, dependencies |-> dependencies])
    /\ UNCHANGED <<active_projects, task_assignments, performance_metrics,
                   execution_plan>>

\* _create_execution_plan(subtasks, assignments): dependency_graph maps each task
\* id to the subtask's dependencies, in the order of the subtasks
create_execution_plan ==
    /\ ProjectFrame
    /\ ~execution_plan.planned
    /\ LET dependency_graph == plan_subtasks
           execution_order == topological_sort(dependency_graph)
       IN  execution_plan' =
              [planned |-> TRUE, execution_order |-> execution_order,
               execution_groups |->
                   create_execution_groups(execution_order, dependency_graph)]
    /\ UNCHANGED <<active_projects, task_assignments, performance_metrics,
                   plan_subtasks>>

\* the manager decomposing a workflow and planning its subtasks
PlanNext ==
    \/ \E task_id \in PlanTaskIds : \E dependencies \in SUBSET PlanTaskIds :
          decompose_subtask(task_id, dependencies)
    \/ create_execution_plan

ProjectNext ==
    \/ \E project_id \in ProjectIds : \E worker_idle \in BOOLEAN :
          handle_workflow_automation(project_id, worker_idle)
    \/ \E task_id \in SubtaskIds : handle_task_completion(task_id)

\* ======================================================================
\* The request API (src/api/routers/requests.py, over request_store) and
\* AgentService (src/api/services/agent_service.py, over active_requests):
\* creation, background processing and cancel_request. A request's id is its
\* index in the store (the code draws a uuid4).
\* ======================================================================
\* the requests created, both stores together, and the cancel_request calls
MaxRequests == 3
MaxCancels == 2

Stores == {"request_store", "active_requests"}

\* RequestStatus as created: pending, no error; pc is the position of the
\* background task that processes the request
NewRequestStatus == [status |-> "pending", error |-> "", pc |-> "created"]

NoCancel == [n |-> 0, store |-> "", request_id |-> 0, answer |-> ""]

\* a cancel_request call on a store and what it answered
CancelCall(store, request_id, answer) ==
    [n |-> cancels.n + 1, store |-> store, request_id |-> request_id,
     answer |-> answer]

RequestInit ==
    /\ request_store = <<>>
    /\ active_requests = <<>>
    /\ cancels = NoCancel

RequestFrame ==
    UNCHANGED <<agent_vars, order_vars, engine_vars, tool_vars, timed_step,
                manager_vars, monitor_vars, project_vars, app_vars>>

\* the test of both cancel_request functions: pending and processing requests
\* can be cancelled, completed and failed ones cannot
CanCancel_Always(request_status) == TRUE

CanCancel(request_status) == request_status \in {"pending", "processing"}

\* the record after a cancel_request call, and what the call answers
cancelled(record) ==
    IF CanCancel(record.status)
    THEN [record EXCEPT !.status = "failed", !.error = "Request cancelled by user"]
    ELSE record

\* POST /requests: the status is stored pending and the background task is added
create_shopping_request ==
    /\ RequestFrame
    /\ Len(request_store) + Len(active_requests) < MaxRequests
    /\ request_store' = Append(request_store, NewRequestStatus)
    /\ UNCHANGED <<active_requests, cancels>>

\* the background task process_shopping_request: it calls the synchronous
\* AgentService.process_shopping_request, so it runs from processing to completed,
\* or to failed on an exception, without a suspension
process_shopping_request(request_id, raised) ==
    /\ RequestFrame
    /\ request_store[request_id].pc = "created"
    /\ request_store' = [request_store EXCEPT ![request_id] =
          IF raised
          THEN [status |-> "failed", error |-> "exception", pc |-> "done"]
          ELSE [@ EXCEPT !.status = "completed", !.pc = "done"]]
    /\ UNCHANGED <<active_requests, cancels>>

\* DELETE /requests/{request_id}: 404 for an unknown id, 400 for a completed or
\* failed request, otherwise the request is set failed
cancel_request_route(request_id) ==
    /\ RequestFrame
    /\ cancels.n < MaxCancels
    /\ IF request_id \notin DOMAIN request_store
       THEN /\ cancels' = CancelCall("request_store", request_id, "not_found")
            /\ UNCHANGED request_store
       ELSE /\ cancels' = CancelCall("request_store", request_id,
                  IF CanCancel(request_store[request_id].status)
                  THEN "cancelled" ELSE "rejected")
            /\ request_store' =
                  [request_store EXCEPT ![request_id] = cancelled(@)]
    /\ UNCHANGED active_requests

\* AgentService.create_request: the status is stored pending and the task of
\* _process_request is created
create_request ==
    /\ RequestFrame
    /\ Len(request_store) + Len(active_requests) < MaxRequests
    /\ active_requests' = Append(active_requests, NewRequestStatus)
    /\ UNCHANGED <<request_store, cancels>>

\* _process_request, first run of the task: processing, then the awaits of the
\* progress updates, the sleeps and the executor
process_request_begin(request_id) ==
    /\ RequestFrame
    /\ active_requests[request_id].pc = "created"
    /\ active_requests' = [active_requests EXCEPT ![request_id] =
          [@ EXCEPT !.status = "processing", !.pc = "awaiting"]]
    /\ UNCHANGED <<request_store, cancels>>

\* _process_request after its awaits: completed, or failed on an exception
process_request_end(request_id, raised) ==
    /\ RequestFrame
    /\ active_requests[request_id].pc = "awaiting"
    /\ active_requests' = [active_requests EXCEPT ![request_id] =
          IF raised
          THEN [status |-> "failed", error |-> "exception", pc |-> "done"]
          ELSE [@ EXCEPT !.status = "completed", !.pc = "done"]]
    /\ UNCHANGED <<request_store, cancels>>

\* AgentService.cancel_request: False for an unknown id and for a completed or
\* failed request, otherwise the request is set failed and the answer is True
cancel_request(request_id) ==
    /\ RequestFrame
    /\ cancels.n < MaxCancels
    /\ IF request_id \notin DOMAIN active_requests
       THEN /\ cancels' = CancelCall("active_requests", request_id, "not_found")
            /\ UNCHANGED active_requests
       ELSE /\ cancels' = CancelCall("active_requests", request_id,
                  IF CanCancel(active_requests[request_id].status)
                  THEN "cancelled" ELSE "rejected")
            /\ active_requests' =
                  [active_requests EXCEPT ![request_id] = cancelled(@)]
    /\ UNCHANGED request_store

RequestNext ==
    \/ create_shopping_request
    \/ \E request_id \in DOMAIN request_store : \E raised \in BOOLEAN :
          process_shopping_request(request_id, raised)
    \/ \E request_id \in 1..MaxRequests : cancel_request_route(request_id)
    \/ create_request
    \/ \E request_id \in DOMAIN active_requests : process_request_begin(request_id)
    \/ \E request_id \in DOMAIN active_requests : \E raised \in BOOLEAN :
          process_request_end(request_id, raised)
    \/ \E request_id \in 1..MaxRequests : cancel_request(request_id)

\* ---------------------------------------------------------------- ShoppingAgentApp
\* src/main.py: run() with the steps of initialize(), the signal handler and
\* shutdown(). The steps of initialize() run in program order, under run() or
\* called directly as run_demo, run_single_request and run_workflow_file do;
\* shutdown() is called by the finally clause of run() and, at any moment, by
\* other tasks of the process. A call of shutdown() is
\* followed statement by statement: once is_running is False neither the
\* signal handler nor another call of shutdown() changes anything, so the
\* finer grain adds no behaviour. With the default log_format ("json") none
\* of the awaited shutdown methods raises.

\* the calls of shutdown() other tasks make (run() makes one more)
MaxShutdownCalls == 3

ComponentNames == {"vector_db", "workflow_engine", "workflow_monitor", "tool_manager"}

\* AgentType of base_agent.py, by value
AgentTypeValues == {"manager", "worker", "tester", "specialist"}

\* the agent ids of the default worker_configs, in the order of the list
worker_configs ==
    <<"worker_doc_001", "worker_data_001", "worker_cs_001", "worker_code_001",
      "worker_general_001">>

AgentIds == {"manager_001", "tester_001"} \cup
            {worker_configs[i] : i \in 1..Len(worker_configs)}

\* agent.agent_type.value: ManagerAgent, TesterAgent and WorkerAgent pass their
\* own AgentType to BaseAgent.__init__
AgentTypeOf(agent_id) ==
    IF agent_id = "manager_001" THEN "manager"
    ELSE IF agent_id = "tester_001" THEN "tester"
    ELSE "worker"

NoAgents == [manager_agent |-> "none", worker_agents |-> <<>>, tester_agent |-> "none"]

AppInit ==
    /\ is_running = FALSE
    /\ shutdown_event = FALSE
    /\ run_pc = "constructed"
    /\ components = [c \in ComponentNames |-> "none"]
    /\ app_agents = NoAgents
    /\ engine_agents = [t \in AgentTypeValues |-> "none"]
    /\ registered = <<>>
    /\ teardown = <<>>
    /\ shutdown_calls = <<>>

AppFrame ==
    UNCHANGED <<agent_vars, order_vars, engine_vars, tool_vars, timed_step,
                manager_vars, monitor_vars, project_vars, request_vars>>

\* _initialize_core_services: the LLM client and the vector store handler
initialize_core_services ==
    /\ run_pc = "constructed"
    /\ components' = [components EXCEPT !.vector_db = "active"]
    /\ run_pc' = "core_services"
    /\ UNCHANGED <<is_running, shutdown_event, app_agents, engine_agents, registered,
                   teardown, shutdown_calls>>
    /\ AppFrame

\* _initialize_agents: one manager, a worker for every entry of worker_configs,
\* one tester
initialize_agents ==
    /\ run_pc = "core_services"
    /\ components.vector_db # "none"
    /\ app_agents' = [manager_agent |-> "manager_001",
                      worker_agents |-> app_agents.worker_agents \o worker_configs,
                      tester_agent |-> "tester_001"]
    /\ run_pc' = "agents"
    /\ UNCHANGED <<is_running, shutdown_event, components, engine_agents, registered,
                   teardown, shutdown_calls>>
    /\ AppFrame

\* _initialize_workflow_system, first statement: a fresh WorkflowEngine
initialize_workflow_engine ==
    /\ run_pc = "agents"
    /\ components' = [components EXCEPT !.workflow_engine = "active"]
    /\ engine_agents' = [t \in AgentTypeValues |-> "none"]
    /\ registered' = <<>>
    /\ run_pc' = "registering"
    /\ UNCHANGED <<is_running, shutdown_event, app_agents, teardown, shutdown_calls>>
    /\ AppFrame

\* the agents _initialize_workflow_system registers, in its order: the manager,
\* the workers, the tester (each `if` skips an agent that was not created)
RegistrationOrder(agents) ==
    SelectSeq(<<agents.manager_agent>> \o agents.worker_agents \o
              <<agents.tester_agent>>,
              LAMBDA a : a # "none")

\* WorkflowEngine.register_agent: self.agents[agent.agent_type.value] = agent
agents_after_register(agents, agent_id) ==
    [agents EXCEPT ![AgentTypeOf(agent_id)] = agent_id]

\* one call of register_agent of _initialize_workflow_system
register_agent ==
    /\ run_pc = "registering"
    /\ Len(registered) < Len(RegistrationOrder(app_agents))
    /\ LET agent_id == RegistrationOrder(app_agents)[Len(registered) + 1]
       IN  /\ engine_agents' = agents_after_register(engine_agents, agent_id)
           /\ registered' = Append(registered, agent_id)
    /\ UNCHANGED <<is_running, shutdown_event, run_pc, components, app_agents,
                   teardown, shutdown_calls>>
    /\ AppFrame

\* _initialize_workflow_system, the rest: the monitor is created and started
initialize_workflow_monitor ==
    /\ run_pc = "registering"
    /\ Len(registered) = Len(RegistrationOrder(app_agents))
    /\ components' = [components EXCEPT !.workflow_monitor = "active"]
    /\ run_pc' = "workflow_system"
    /\ UNCHANGED <<is_running, shutdown_event, app_agents, engine_agents, registered,
                   teardown, shutdown_calls>>
    /\ AppFrame

\* _initialize_tool_manager
initialize_tool_manager ==
    /\ run_pc = "workflow_system"
    /\ components' = [components EXCEPT !.tool_manager = "active"]
    /\ run_pc' = "tool_manager"
    /\ UNCHANGED <<is_running, shutdown_event, app_agents, engine_agents, registered,
                   teardown, shutdown_calls>>
    /\ AppFrame

\* _start_message_bus returns and so does initialize(), called directly (main()
\* with --demo, --request or --workflow): is_running stays False
initialize_returns ==
    /\ run_pc = "tool_manager"
    /\ run_pc' = "initialized"
    /\ UNCHANGED <<is_running, shutdown_event, components, app_agents, engine_agents,
                   registered, teardown, shutdown_calls>>
    /\ AppFrame

\* _start_message_bus returns, run() sets is_running and blocks in _main_loop on
\* shutdown_event.wait()
run_main_loop ==
    /\ run_pc = "tool_manager"
    /\ is_running' = TRUE
    /\ run_pc' = "main_loop"
    /\ UNCHANGED <<shutdown_event, components, app_agents, engine_agents, registered,
                   teardown, shutdown_calls>>
    /\ AppFrame

\* signal_handler (SIGINT, SIGTERM): on a running application the flag is
\* cleared and the event set; otherwise the signal is only logged
signal_handler ==
    /\ is_running
    /\ is_running' = FALSE
    /\ shutdown_event' = TRUE
    /\ UNCHANGED <<run_pc, components, app_agents, engine_agents, registered,
                   teardown, shutdown_calls>>
    /\ AppFrame

\* _main_loop returns once the event is set; run() goes to its finally clause
main_loop_returns ==
    /\ run_pc = "main_loop"
    /\ shutdown_event
    /\ run_pc' = "finally"
    /\ UNCHANGED <<is_running, shutdown_event, components, app_agents, engine_agents,
                   registered, teardown, shutdown_calls>>
    /\ AppFrame

\* initialize() has returned: every component of the application exists
InitializeReturned ==
    run_pc \in {"initialized", "main_loop", "finally", "shutting_down", "done"}

\* shutdown(), up to its first await: nothing but the return unless is_running
\* (initialised: the call was made after initialize() had returned)
shutdown_call(caller) ==
    [caller |-> caller,
     initialised |-> InitializeReturned,
     pc |-> IF is_running THEN "stop_monitoring" ELSE "returned"]

\* the finally clause of run(): await self.shutdown()
run_finally ==
    /\ run_pc = "finally"
    /\ shutdown_calls' = Append(shutdown_calls, shutdown_call("run"))
    /\ is_running' = FALSE
    /\ run_pc' = "shutting_down"
    /\ UNCHANGED <<shutdown_event, components, app_agents, engine_agents, registered,
                   teardown>>
    /\ AppFrame

\* run() returns when its call of shutdown() has
run_done ==
    /\ run_pc = "shutting_down"
    /\ \E i \in 1..Len(shutdown_calls) :
          shutdown_calls[i].caller = "run" /\ shutdown_calls[i].pc = "returned"
    /\ run_pc' = "done"
    /\ UNCHANGED <<is_running, shutdown_event, components, app_agents, engine_agents,
                   registered, teardown, shutdown_calls>>
    /\ AppFrame

\* shutdown() called by another task of the process
shutdown ==
    /\ Len(SelectSeq(shutdown_calls, LAMBDA c : c.caller = "task")) < MaxShutdownCalls
    /\ shutdown_calls' = Append(shutdown_calls, shutdown_call("task"))
    /\ is_running' = FALSE
    /\ UNCHANGED <<shutdown_event, run_pc, components, app_agents, engine_agents,
                   registered, teardown>>
    /\ AppFrame

\* `if self.<component>: await self.<component>.<stop>()`
stopped_component(name) ==
    IF components[name] # "none"
        THEN [components EXCEPT ![name] = "stopped"]
        ELSE components

teardown_after(name) ==
    IF components[name] # "none" THEN Append(teardown, name) ELSE teardown

\* await self.workflow_monitor.stop_monitoring(); the scheduler is None
shutdown_stop_monitoring(i) ==
    /\ shutdown_calls[i].pc = "stop_monitoring"
    /\ components' = stopped_component("workflow_monitor")
    /\ teardown' = teardown_after("workflow_monitor")
    /\ shutdown_calls' = [shutdown_calls EXCEPT ![i].pc = "engine_shutdown"]
    /\ UNCHANGED <<is_running, shutdown_event, run_pc, app_agents, engine_agents,
                   registered>>
    /\ AppFrame

\* await self.workflow_engine.shutdown()
shutdown_engine(i) ==
    /\ shutdown_calls[i].pc = "engine_shutdown"
    /\ components' = stopped_component("workflow_engine")
    /\ teardown' = teardown_after("workflow_engine")
    /\ shutdown_calls' = [shutdown_calls EXCEPT ![i].pc = "tool_manager_shutdown"]
    /\ UNCHANGED <<is_running, shutdown_event, run_pc, app_agents, engine_agents,
                   registered>>
    /\ AppFrame

\* await self.tool_manager.shutdown()
shutdown_tool_manager(i) ==
    /\ shutdown_calls[i].pc = "tool_manager_shutdown"
    /\ components' = stopped_component("tool_manager")
    /\ teardown' = teardown_after("tool_manager")
    /\ shutdown_calls' = [shutdown_calls EXCEPT ![i].pc = "vector_db_close"]
    /\ UNCHANGED <<is_running, shutdown_event, run_pc, app_agents, engine_agents,
                   registered>>
    /\ AppFrame

\* await self.vector_db.close()
shutdown_vector_db(i) ==
    /\ shutdown_calls[i].pc = "vector_db_close"
    /\ components' = stopped_component("vector_db")
    /\ teardown' = teardown_after("vector_db")
    /\ shutdown_calls' = [shutdown_calls EXCEPT ![i].pc = "set_event"]
    /\ UNCHANGED <<is_running, shutdown_event, run_pc, app_agents, engine_agents,
                   registered>>
    /\ AppFrame

\* self.shutdown_event.set(), and the call returns
shutdown_set_event(i) ==
    /\ shutdown_calls[i].pc = "set_event"
    /\ shutdown_event' = TRUE
    /\ teardown' = Append(teardown, "shutdown_event")
    /\ shutdown_calls' = [shutdown_calls EXCEPT ![i].pc = "returned"]
    /\ UNCHANGED <<is_running, run_pc, components, app_agents, engine_agents,
                   registered>>
    /\ AppFrame

AppNext ==
    \/ initialize_core_services
    \/ initialize_agents
    \/ initialize_workflow_engine
    \/ register_agent
    \/ initialize_workflow_monitor
    \/ initialize_tool_manager
    \/ initialize_returns
    \/ run_main_loop
    \/ signal_handler
    \/ main_loop_returns
    \/ run_finally
    \/ run_done
    \/ shutdown
    \/ \E i \in 1..Len(shutdown_calls) : shutdown_stop_monitoring(i)
    \/ \E i \in 1..Len(shutdown_calls) : shutdown_engine(i)
    \/ \E i \in 1..Len(shutdown_calls) : shutdown_tool_manager(i)
    \/ \E i \in 1..Len(shutdown_calls) : shutdown_vector_db(i)
    \/ \E i \in 1..Len(shutdown_calls) : shutdown_set_event(i)

\* ---------------------------------------------------------------- specifications
\* every component as constructed
Init ==
    /\ AgentInit /\ OrderParked /\ EngineInit /\ ToolInit({CachingConfig})
    /\ timed_step = StepIdle
    /\ ManagerInit
    /\ MonitorInit
    /\ ProjectInit
    /\ RequestInit
    /\ AppInit

\* the same, the tool with any of the configurations
InitTool ==
    /\ AgentInit /\ OrderParked /\ EngineInit /\ ToolInit(ToolConfigs)
    /\ timed_step = StepIdle
    /\ ManagerInit
    /\ MonitorInit
    /\ ProjectInit
    /\ RequestInit
    /\ AppInit

SpecAgent == Init /\ [][AgentNext]_vars

\* the agent under a fair event loop: a task that is ready to run is run (the loop
\* task wakes from its sleeps, the awaited handlers return, a cancellation is
\* delivered); the callers of add_task, receive_message, start and stop are free
SpecAgentLive ==
    /\ Init
    /\ [][AgentNext]_vars
    /\ WF_vars(LoopIterate)
    /\ WF_vars(HandleMessageDone)
    /\ WF_vars(ProcessTaskDone)
    /\ WF_vars(LoopCancelled)
    /\ WF_vars(StopReturn)

SpecOrder == Init /\ [][OrderNext]_vars

SpecEngine == Init /\ [][EngineNext]_vars

SpecEngineShutdown == Init /\ [][EngineShutdownNext]_vars

SpecRetry == Init /\ [][RetryNext]_vars

SpecTool == InitTool /\ [][ToolNext]_vars

SpecTimeout == InitTool /\ [][TimeoutNext]_vars

SpecManager == Init /\ [][ManagerNext]_vars

SpecHistory == Init /\ [][HistoryNext]_vars

SpecShutdown == Init /\ [][ShutdownNext]_vars

SpecMonitor == Init /\ [][MonitorNext]_vars

SpecEventLog == Init /\ [][EventLogNext]_vars

SpecProject == Init /\ [][ProjectNext]_vars

SpecPlan == Init /\ [][PlanNext]_vars

SpecRequest == Init /\ [][RequestNext]_vars

SpecApp == Init /\ [][AppNext]_vars

\* ---------------------------------------------------------------- claims C1-C4
\* C1: at most one task is in progress at any moment (current_tasks holds at most one
\* entry), and a step that dequeues a task from task_queue is taken only while the
\* agent's status is idle.
C1_SingleTaskInProgress ==
    [][ /\ Cardinality(current_tasks') <= 1
        /\ (Len(task_queue') < Len(task_queue) => status = "idle") ]_vars

\* C1 witness: one task in progress while other tasks and a message are queued
C1_Witness ==
    /\ Cardinality(current_tasks) = 1
    /\ status = "busy"
    /\ Len(task_queue) >= 2
    /\ message_queue # <<>>

\* task_queue is in non-increasing priority, equal priorities in arrival (id) order
QueueOrdered(queue) ==
    \A i, j \in 1..Len(queue) :
        i < j => \/ queue[i].priority > queue[j].priority
                 \/ /\ queue[i].priority = queue[j].priority
                    /\ queue[i].task_id < queue[j].task_id

\* C2: the task queue is always ordered by non-increasing priority with equal
\* priorities in arrival order, and the task the loop dequeues is the one of highest
\* priority, the earliest-arrived among those.
C2_PriorityFifoOrder ==
    [][ /\ QueueOrdered(task_queue')
        /\ \A t \in current_tasks' \ current_tasks :
             \E k \in 1..Len(task_queue) :
                /\ task_queue[k].task_id = t
                /\ \A i \in 1..Len(task_queue) :
                     \/ task_queue[i].priority < task_queue[k].priority
                     \/ /\ task_queue[i].priority = task_queue[k].priority
                        /\ task_queue[i].task_id >= t ]_vars

\* C2 witness: priorities 1, 5, 5 were inserted in this order; the queue holds
\* 5, 5, 1 with the earlier-inserted 5 (task 2) before the later one (task 3)
C2_Witness ==
    task_queue = << [task_id |-> 2, priority |-> 5], [task_id |-> 3, priority |-> 5],
                    [task_id |-> 1, priority |-> 1] >>

\* C3: an add_task call returns true exactly when every listed dependency id has a
\* completed_tasks entry with status completed; a call that returns false leaves the
\* task queue unchanged, a call that returns true adds one task.
C3_DependencyGate ==
    [][ last_add'.returned # "none" =>
          LET deps == last_add'.deps
              satisfied == \A k \in 1..Len(deps) :
                              \E i \in 1..Len(completed_tasks) :
                                 /\ completed_tasks[i].task_id = deps[k]
                                 /\ completed_tasks[i].status = "completed"
          IN  /\ (last_add'.returned = "true") <=> satisfied
              /\ last_add'.returned = "false" => task_queue' = task_queue
              /\ last_add'.returned = "true" =>
                    Len(task_queue') = Len(task_queue) + 1 ]_vars

\* C3 witness: a task depending on tasks 1 and 2 was just rejected although both have
\* run: task 1 completed, task 2 failed
C3_Witness ==
    /\ last_add = [deps |-> <<1, 2>>, returned |-> "false"]
    /\ \E i \in 1..Len(completed_tasks) :
          completed_tasks[i] = [task_id |-> 1, status |-> "completed"]
    /\ \E i \in 1..Len(completed_tasks) :
          completed_tasks[i] = [task_id |-> 2, status |-> "failed"]

\* C4: after stop() has returned, and until start() is called again, the loop task
\* is not running and the agent's status is offline.
C4_StopLeavesOffline ==
    stopped => /\ loop_pc \in {"none", "done"}
               /\ status = "offline"

\* ---------------------------------------------------------------- claim C6
\* the level (index into wf_levels) at which a step id occurs
LevelsOf(step_id) ==
    {l \in 1..Len(wf_levels) :
        \E k \in 1..Len(wf_levels[l]) : wf_levels[l][k] = step_id}

Occurrences(step_id) ==
    Cardinality({<<l, k>> \in (1..Len(wf_levels)) \X (1..Len(wf_steps)) :
                    k <= Len(wf_levels[l]) /\ wf_levels[l][k] = step_id})

\* C6: for a workflow that passed validate(), get_execution_order returns levels in
\* which every step occurs exactly once, every dependency of a step lies in a strictly
\* earlier level, and every step is in the earliest such level: the first level when
\* it has no dependencies, else the level right after its latest dependency.
C6_ExecutionOrderLevels ==
    (wf_pc = "ordered" /\ wf_errors = {}) =>
        \A i \in 1..Len(wf_steps) :
            LET s == wf_steps[i].step_id
                deps == {wf_steps[i].dependencies[k] :
                            k \in 1..Len(wf_steps[i].dependencies)}
            IN  /\ Occurrences(s) = 1
                /\ \A l \in LevelsOf(s) :
                     /\ \A d \in deps : \A m \in LevelsOf(d) : m < l
                     /\ \/ l = 1 /\ deps = {}
                        \/ \E d \in deps : (l - 1) \in LevelsOf(d)

\* C6 witness: A without dependencies, B and C depending on A, D depending on B and C
\* gives the levels {A}, {B, C}, {D}
C6_Witness ==
    /\ wf_pc = "ordered"
    /\ wf_errors = {}
    /\ wf_steps = << [step_id |-> "A", dependencies |-> <<>>],
                     [step_id |-> "B", dependencies |-> <<"A">>],
                     [step_id |-> "C", dependencies |-> <<"A">>],
                     [step_id |-> "D", dependencies |-> <<"B", "C">>] >>
    /\ wf_levels = << <<"A">>, <<"B", "C">>, <<"D">> >>

\* ---------------------------------------------------------------- claims C5, C7-C10
\* the level of get_execution_order() a step of workflow w belongs to
LevelOf(w, s) == CHOOSE l \in 1..Len(Levels(w)) : s \in LevelSet(w, l)

\* an _execute_step task of step s has started in execution e and has not ended
StepRunning(e, s) ==
    \E origin \in {"level", "child"} : step_tasks[e][<<s, origin>>] = "running"

\* C5: within one execution the levels run strictly in order, whatever the types of
\* the steps: no step of level k+1 is started while a step of level k of the same
\* execution is still running, so no two steps of consecutive levels run at once.
C5_LevelBarrier ==
    \A e \in 1..Len(executions) :
        LET w == executions[e].workflow_id
        IN  \A s, t \in StepIdsOf(w) :
                LevelOf(w, t) = LevelOf(w, s) + 1 =>
                    ~(StepRunning(e, s) /\ StepRunning(e, t))

\* the executions of workflow w that count as running
RunningOf(w) ==
    {e \in 1..Len(executions) :
        /\ executions[e].workflow_id = w
        /\ executions[e].status = "running" \/ e \in running_executions}

\* C7: the number of running executions of one workflow never exceeds the
\* workflow's max_concurrent_executions.
C7_ConcurrencyLimit ==
    \A w \in WorkflowIds :
        Cardinality(RunningOf(w)) <= WorkflowDef(w).max_concurrent_executions

\* C7 witness: the workflow that allows two executions has two, both in their first
\* level, while the sample workflow (limit one) is not running
C7_Witness ==
    /\ Cardinality(RunningOf("tolerant")) = 2
    /\ \A e \in RunningOf("tolerant") : exec_task[e].pc = "gather"
    /\ RunningOf("sample") = {}

\* C8: an execution that runs to its end without being stopped is finalized as
\* completed exactly when it recorded no failed step, and as failed otherwise.
C8_FinalStatus ==
    \A e \in 1..Len(executions) :
        (exec_task[e].pc = "done" /\ executions[e].status # "cancelled") =>
            /\ executions[e].status \in {"completed", "failed"}
            /\ executions[e].status = "completed" <=> executions[e].failed_steps = 0

\* C8 witness: an execution went through every level although a step of the first
\* level failed, and is finalized as failed
C8_Witness ==
    \E e \in 1..Len(executions) :
        /\ executions[e].workflow_id = "tolerant"
        /\ exec_task[e].pc = "done"
        /\ executions[e].status = "failed"
        /\ executions[e].failed_steps = 1
        /\ executions[e].step_executions["store"] = "success"

\* C9: the three-step chain of create_sample_workflow, created and started, ends
\* (when it is not stopped) as completed with completed_steps = 3, failed_steps = 0.
C9_SampleCompletes ==
    \A e \in 1..Len(executions) :
        (/\ executions[e].workflow_id = "sample"
         /\ exec_task[e].pc = "done"
         /\ executions[e].status # "cancelled") =>
            /\ executions[e].status = "completed"
            /\ executions[e].completed_steps = 3
            /\ executions[e].failed_steps = 0

\* C10: once stop_workflow has returned true for a running execution, the execution
\* is cancelled and not among the running executions, and from then on none of its
\* steps starts (no step task changes) or records a result.
C10_StopIsFinal ==
    [][ \A e \in stop_returned' :
          /\ executions'[e].status = "cancelled"
          /\ e \notin running_executions'
          /\ e \in stop_returned =>
                /\ step_tasks'[e] = step_tasks[e]
                /\ executions'[e].step_executions = executions[e].step_executions
                /\ executions'[e].completed_steps = executions[e].completed_steps
                /\ executions'[e].failed_steps = executions[e].failed_steps ]_vars

\* C10 witness: an execution was stopped in its first level, after one step had
\* recorded its result and while another was running; a later execution of the same
\* workflow has since finished a step
C10_Witness ==
    \E e \in stop_returned :
        /\ executions[e].workflow_id = "nested"
        /\ step_tasks[e][<<"fan_out", "level">>] = "cancelled"
        /\ executions[e].step_executions["prepare"] = "success"
        /\ \E f \in 1..Len(executions) :
              /\ f # e
              /\ executions[f].workflow_id = "nested"
              /\ executions[f].completed_steps > 0

\* --------------------------------------------------------------- claim C11
\* C11: a stop_workflow call on an execution that has already ended (it finished,
\* or an earlier stop_workflow stopped it: no task is registered for it any more)
\* leaves the status of every execution and the engine's counters as they were.
C11_StopAgainChangesNothing ==
    [][ (stop_calls' = stop_calls + 1 /\ stop_wait' = stop_wait)
           => /\ executions' = executions
              /\ engine_metrics' = engine_metrics ]_vars

\* ---------------------------------------------------------- claims C12-C15
\* the step is a call of run
IsRunCall == calls_made' = calls_made + 1

\* the call of run made in this step has these keyword arguments
NewCallHas(kwargs) ==
    \/ returned'.call = calls_made' /\ returned'.kwargs = kwargs
    \/ \E task \in pending' \ pending : task.kwargs = kwargs

\* the call of run made in this step invokes execute
NewCallInvokes == pending' # pending

\* an earlier call with these keyword arguments, made at most cache_ttl_seconds ago,
\* has invoked execute
InvokedWithinTtl(kwargs) ==
    \/ \E task \in pending :
          /\ task.kwargs = kwargs
          /\ clock - task.called_at <= config.cache_ttl_seconds
    \/ /\ returned.invoked
       /\ returned.kwargs = kwargs
       /\ clock - returned.called_at <= config.cache_ttl_seconds

\* C12 as stated: with caching enabled, of two run calls with identical parameters
\* made within cache_ttl_seconds of each other only one invokes execute: when the
\* earlier one has invoked it, the later one does not.
C12_IdenticalCallsExecuteOnce ==
    [][ \A kwargs \in ValidKwargs :
           (/\ IsRunCall
            /\ config.cache_enabled
            /\ NewCallHas(kwargs)
            /\ InvokedWithinTtl(kwargs)) => ~NewCallInvokes ]_vars

\* C12, amended: with caching enabled, a run call that passes the rate limiter at
\* most cache_ttl_seconds after a call with identical parameters has returned a
\* successful result of execute returns that ToolResult without invoking execute.
C12_CachedResultServed ==
    [][ \A kwargs \in ValidKwargs :
           (/\ IsRunCall
            /\ config.cache_enabled
            /\ NewCallHas(kwargs)
            /\ pass_log' # pass_log
            /\ last_success[kwargs].present
            /\ clock - last_success[kwargs].timestamp <= config.cache_ttl_seconds)
           => /\ ~NewCallInvokes
              /\ returned'.call = calls_made'
              /\ returned'.result = last_success[kwargs].result ]_vars

\* a call was served from the cache a tick after the result it returns was stored
C12_Witness ==
    /\ config.cache_enabled
    /\ returned.call > 0
    /\ returned.passed
    /\ ~returned.invoked
    /\ returned.result.success
    /\ returned.result = last_success[returned.kwargs].result
    /\ returned.called_at = last_success[returned.kwargs].timestamp
                               + config.cache_ttl_seconds

\* the number of calls that passed the rate limiter in the minute that ends at t
PassedInMinuteTo(t) ==
    Cardinality({i \in 1..Len(pass_log) :
                    pass_log[i] > t - TicksPerMinute /\ pass_log[i] <= t})

\* C13: in every minute (a window of TicksPerMinute ticks, its start excluded) at
\* most rate_limit_per_minute run calls pass the rate limiter; a call with valid
\* parameters made when that many have passed in the minute up to now returns a
\* failed ToolResult in the same step and does not invoke execute.
C13_RateLimit ==
    /\ [](\A t \in 0..MaxClock : PassedInMinuteTo(t) <= config.rate_limit_per_minute)
    /\ [][ (/\ IsRunCall
            /\ PassedInMinuteTo(clock) >= config.rate_limit_per_minute
            /\ \E kwargs \in ValidKwargs : NewCallHas(kwargs))
           => /\ ~NewCallInvokes
              /\ pass_log' = pass_log
              /\ returned'.call = calls_made'
              /\ ~returned'.result.success
              /\ returned'.result.error_message.kind = "rate_limit"
              /\ returned'.returned_at = clock ]_vars

\* the limiter was full, let a call pass again once the minute was over, and then
\* rejected a call
C13_Witness ==
    /\ returned.call = calls_made
    /\ returned.kwargs \in ValidKwargs
    /\ ~returned.passed
    /\ returned.result.error_message.kind = "rate_limit"
    /\ Len(pass_log) > config.rate_limit_per_minute

\* C14: run_with_retry makes at most max_retries + 1 attempts, none after a
\* successful one; after the failed attempt number k + 1 that is not the last one
\* allowed it waits retry_delay * 2^k; with two failed attempts and then a
\* successful one it has made 3 attempts and waited retry_delay, 2 * retry_delay.
C14_RetryBackoff ==
    LET n == Len(retry.results)
        failed == Cardinality({i \in 1..n : ~retry.results[i]})
    IN
    /\ n <= config.max_retries + 1
    /\ \A i \in 1..n : retry.results[i] => i = n /\ retry.pc = "returned"
    /\ retry.pc = "returned" => retry.results[n] \/ n = config.max_retries + 1
    /\ Len(retry.waits) = IF failed <= config.max_retries THEN failed
                          ELSE config.max_retries
    /\ \A k \in 0..Len(retry.waits) - 1 :
          retry.waits[k + 1] = config.retry_delay * (2 ^ k)
    /\ retry.pc = "sleeping" /\ returned.call = retry.call
          => retry.wake = returned.returned_at + retry.waits[Len(retry.waits)]
    /\ retry.results = <<FALSE, FALSE, TRUE>>
          => /\ retry.pc = "returned"
             /\ retry.attempt = 2
             /\ retry.waits = <<config.retry_delay, 2 * config.retry_delay>>

\* run_with_retry returned after two failed attempts and a successful one
C14_Witness ==
    /\ retry.pc = "returned"
    /\ retry.results = <<FALSE, FALSE, TRUE>>
    /\ returned.call = retry.call
    /\ returned.invoked


\* C15: a tool run whose execute would take longer than timeout_seconds, and a
\* workflow step whose executor would take longer than the step's timeout, end
\* when the timeout has passed, before the body would have ended, with a failed
\* result whose message carries the timeout value.
C15_TimeoutFails ==
    /\ \A task \in pending :
          task.body > config.timeout_seconds
             => clock <= task.called_at + config.timeout_seconds
    /\ returned.invoked /\ returned.body > config.timeout_seconds
          => /\ returned.result =
                   error_result(ErrorMessage("timeout", config.timeout_seconds))
             /\ returned.returned_at = returned.called_at + config.timeout_seconds
    /\ timed_step.pc = "running" /\ timed_step.body > step_timeout(timed_step)
          => clock <= timed_step.started_at + step_timeout(timed_step)
    /\ timed_step.pc = "returned" /\ timed_step.body > step_timeout(timed_step)
          => /\ timed_step.result =
                   error_result(ErrorMessage("timeout", step_timeout(timed_step)))
             /\ timed_step.returned_at =
                   timed_step.started_at + step_timeout(timed_step)

\* a tool run and a step have both ended by their timeouts
C15_Witness ==
    /\ returned.invoked
    /\ returned.body > config.timeout_seconds
    /\ ~returned.result.success
    /\ timed_step.pc = "returned"
    /\ timed_step.body > step_timeout(timed_step)
    /\ ~timed_step.result.success


\* ---------------------------------------------------------- claims C16-C20
\* C16: an execute_tool call for a registered, enabled tool made while fewer than
\* max_concurrent_executions executions are active is accepted, whether or not
\* other executions are in flight; so is every request of a batch.
C16_AcceptedBelowCeiling ==
    \A i \in 1..Len(requests) :
       (/\ requests[i].eligible
        /\ requests[i].active_before < max_concurrent_executions)
          => requests[i].execution_id # 0

\* C17: an execution accepted by execute_tool goes through the tool's rate
\* limiter before the tool body runs: the limiter records the call that passes it.
C17_ThroughRateLimiter ==
    [][ Len(tool_executions') > Len(tool_executions)
           => /\ rate_limit_timestamps' # rate_limit_timestamps
              /\ pass_log' # pass_log ]_vars

\* how often the execution is in the history
TimesInHistory(e) ==
    Cardinality({i \in 1..Len(execution_history) : execution_history[i] = e})

\* C18: once cancel_execution has returned true for an execution, the tool body
\* is no longer running, the execution is recorded in the history once (never a
\* second time; the cleanup may drop the record) and its status is cancelled.
C18_CancelIsFinal ==
    \A e \in cancel_returned :
       /\ tool_executions[e].pc # "awaiting"
       /\ TimesInHistory(e) <= 1
       /\ tool_executions[e].status = "cancelled"

\* the event types emitted for the execution, in order
RECURSIVE EventsFrom(_, _)
EventsFrom(e, i) ==
    IF i > Len(emitted) THEN <<>>
    ELSE IF emitted[i].execution_id = e
    THEN <<emitted[i].event_type>> \o EventsFrom(e, i + 1)
    ELSE EventsFrom(e, i + 1)

EventsOf(e) == EventsFrom(e, 1)

TerminalEvents == {"execution_completed", "execution_failed", "execution_timeout"}

\* C19: for every accepted execution execution_started is emitted first, then at
\* most one terminal event, and exactly one once execute_tool has returned.
C19_OneTerminalEvent ==
    \A e \in 1..Len(tool_executions) :
       LET event_types == EventsOf(e)
           terminal == {i \in 1..Len(event_types) : event_types[i] \in TerminalEvents}
       IN
       /\ Len(event_types) >= 1
       /\ event_types[1] = "execution_started"
       /\ Cardinality(terminal) <= 1
       /\ tool_executions[e].pc = "returned" => Cardinality(terminal) = 1

\* C20: when the tool's execute raises, execute_tool returns a failed ToolResult,
\* and on its return the execution is no longer in the active map and it is in
\* the history.
C20_RaiseBecomesResult ==
    [][ \A e \in 1..Len(tool_executions) :
           (tool_executions[e].body # "raise" /\ tool_executions'[e].body = "raise")
              => /\ tool_executions'[e].pc = "returned"
                 /\ tool_executions'[e].returned = "failed"
                 /\ tool_executions'[e].status = "error"
                 /\ e \notin active_executions'
                 /\ TimesInHistory(e)' >= 1 ]_vars

\* execute has raised in an execution that was active until then
C20_Witness ==
    \E e \in 1..Len(tool_executions) :
       /\ tool_executions[e].body = "raise"
       /\ tool_executions[e].status = "error"
       /\ TimesInHistory(e) = 1
       /\ manager_status = "ready"

\* the manager right after its construction: nothing has been registered by a
\* caller and nothing has been asked of it
ManagerAsConstructed ==
    /\ tool_executions = <<>>
    /\ requests = <<>>
    /\ \A t \in ToolObjects \ DefaultTools : ~registrations[t].registered

\* C21: right after construction the registry holds exactly the four default
\* tools, each enabled, and the manager is ready to execute them by name.
C21_DefaultToolsRegistered ==
    ManagerAsConstructed
       => /\ {t \in ToolObjects : registrations[t].registered} = DefaultTools
          /\ \A t \in DefaultTools : registrations[t].enabled
          /\ ManagerReady(manager_status)

\* a bound below the number of executions that are made
HistoryLimit == MaxToolExecutions - 1

\* C22: the history never grows beyond a fixed bound, however many executions
\* are made: with MaxToolExecutions executions it stays within HistoryLimit.
C22_HistoryBounded == Len(execution_history) <= HistoryLimit

\* the alert events of a rule for a workflow that are in the log
AlertsOf(rule_id, workflow_id) ==
    {i \in 1..Len(events) : /\ events[i].rule_id = rule_id
                            /\ events[i].workflow_id = workflow_id}

\* C23: a rule that has fired for a workflow does not fire again for that
\* workflow before cooldown_minutes have passed: two alerts of one rule for one
\* workflow are at least cooldown_minutes apart.
C23_Cooldown ==
    \A rule_id \in RuleIds : \A workflow_id \in MonitoredWorkflows :
       \A i, j \in AlertsOf(rule_id, workflow_id) :
          i < j => events[j].timestamp - events[i].timestamp >= cooldown_ticks

\* a rule has fired for a workflow, and again once the cooldown was over
C23_Witness ==
    \E rule_id \in RuleIds : \E workflow_id \in MonitoredWorkflows :
       \E i, j \in AlertsOf(rule_id, workflow_id) :
          /\ i < j
          /\ events[j].timestamp - events[i].timestamp >= cooldown_ticks
          /\ last_triggered[rule_id] = events[j].timestamp

\* C24: the event log never holds more than max_events events.
C24_LogCapped == Len(events) <= max_events

\* C25: when the cleanup evicts events, every event it removes was recorded
\* before every event it keeps, also after a get_events call.
C25_OldestEvicted ==
    [][ Len(events') < Len(events)
          => \A removed \in Range(events) \ Range(events') :
                \A kept \in Range(events') : removed.id < kept.id ]_vars

\* a step of the monitoring loop: the loop task goes from one sleep to the next
LoopStep ==
    /\ monitor_loop.task = "running"
    /\ monitor_loop'.task = "running"
    /\ monitor_loop'.wake # monitor_loop.wake

\* C26: once the metrics of a workflow include a failed run, the next evaluation
\* of the loop at which the workflow_failure rule is outside its cooldown records
\* a high-severity alert of that rule for the workflow.
C26_FailureAlert ==
    [][ LoopStep =>
          \A i \in 1..Len(monitor_metrics) :
             (/\ monitor_metrics[i].failure_count > 0
              /\ ~InCooldown(last_triggered, "workflow_failure"))
                => \E e \in Range(events') :
                      /\ e.rule_id = "workflow_failure"
                      /\ e.workflow_id = monitor_metrics[i].workflow_id
                      /\ e.severity = "high"
                      /\ e.timestamp = monitor_now ]_vars

\* C27: a project is marked completed only when a completion report has been
\* received for every one of its subtasks; a repeated report for one subtask
\* does not stand for another.
C27_CompletedOnlyWhenAllReported ==
    \A i \in 1..Len(active_projects) :
       active_projects[i].status = "completed"
          => Range(active_projects[i].subtasks)
                \subseteq Range(active_projects[i].completed_tasks)

\* the store a cancel_request call works on
StoreOf(store) == IF store = "request_store" THEN request_store ELSE active_requests

\* C28: cancel_request on a pending or processing request sets it failed with the
\* cancelled-by-user error and is answered as cancelled; on a completed or failed
\* request it is rejected and the stored record stays as it was.
C28_CancelOnlyLive ==
    [][ cancels'.n > cancels.n =>
          LET call == cancels'
              before == StoreOf(call.store)
              after == IF call.store = "request_store" THEN request_store'
                       ELSE active_requests'
          IN  call.request_id \in DOMAIN before =>
                 IF before[call.request_id].status \in {"pending", "processing"}
                 THEN /\ call.answer = "cancelled"
                      /\ after[call.request_id].status = "failed"
                      /\ after[call.request_id].error = "Request cancelled by user"
                 ELSE /\ call.answer = "rejected"
                      /\ after[call.request_id] = before[call.request_id] ]_vars

\* a cancel of a completed request has just been rejected, and a request that
\* was cancelled while it was processing is failed with the error of the cancel
C28_Witness ==
    /\ cancels.answer = "rejected"
    /\ StoreOf(cancels.store)[cancels.request_id].status = "completed"
    /\ \E store \in Stores : \E request_id \in DOMAIN StoreOf(store) :
          /\ StoreOf(store)[request_id].pc = "awaiting"
          /\ StoreOf(store)[request_id].status = "failed"
          /\ StoreOf(store)[request_id].error = "Request cancelled by user"

\* ---------------------------------------------------------------- claims C29-C30
\* the order of the teardown
TeardownOrder ==
    <<"workflow_monitor", "workflow_engine", "tool_manager", "vector_db",
      "shutdown_event">>

\* C29: shutdown() stops the workflow monitor, then the workflow engine, then the
\* tool manager, then the vector store handler, and sets the shutdown signal only
\* after all of them, and a further call performs none of these steps again: the
\* steps the calls of shutdown() have performed are, in this order and each once,
\* a beginning of that list, and once shutdown() has been called on the
\* initialised application and every call has returned, no component is left
\* active and the signal is set.
C29_ShutdownInOrderOnce ==
    /\ Len(teardown) <= Len(TeardownOrder)
    /\ teardown = SubSeq(TeardownOrder, 1, Len(teardown))
    /\ ( /\ \E i \in 1..Len(shutdown_calls) : shutdown_calls[i].initialised
         /\ \A i \in 1..Len(shutdown_calls) : shutdown_calls[i].pc = "returned" )
       => /\ \A c \in ComponentNames : components[c] # "active"
          /\ shutdown_event

\* the agents in the registry of the engine
RegistryAgents == {engine_agents[t] : t \in AgentTypeValues} \ {"none"}

\* C30: after initialization each of the seven agents (one manager, five workers,
\* one tester) is in the agent registry of the workflow engine, and registering
\* an agent never removes or replaces a different agent registered before it:
\* every agent register_agent was called with is in the registry, and all seven
\* are once _initialize_workflow_system is through.
C30_AllAgentsRegistered ==
    /\ \A i \in 1..Len(registered) : registered[i] \in RegistryAgents
    /\ run_pc \notin {"constructed", "core_services", "agents", "registering"}
          => AgentIds \subseteq RegistryAgents

\* ---------------------------------------------------------------- claims C31-C40
\* the signal handler ran on the running application: the event is set by the
\* handler and by the last step of shutdown() only
SignalReceived ==
    /\ shutdown_event
    /\ \A i \in 1..Len(teardown) : teardown[i] # "shutdown_event"

\* C39: a termination signal received while the orchestrator is running leads to
\* the full teardown: the workflow monitor, the workflow engine, the tool manager
\* and the vector store handler are all shut down before run() returns.
C39_SignalTearsDown ==
    (SignalReceived /\ run_pc = "done")
       => \A c \in ComponentNames : components[c] = "stopped"

\* the pairs of a workflow and a rule whose condition the workflow's metrics
\* satisfy, for the rules that have not fired for any workflow so far
DuePairs ==
    {p \in (1..Len(monitor_metrics)) \X RuleIds :
        /\ p[2] \notin DOMAIN last_triggered
        /\ condition_holds(p[2], monitor_metrics[p[1]])}

\* C40: alert cooldowns are independent between workflows: a rule that has just
\* fired for workflow A still fires for a different workflow B whose metrics
\* satisfy its condition, in the same evaluation, when it has not fired for B
\* within the cooldown: an evaluation of the loop records an alert for every
\* workflow and every rule that has never fired whose condition the workflow's
\* metrics satisfy.
C40_CooldownPerWorkflow ==
    [][ LoopStep =>
          monitor_loop'.recorded - monitor_loop.recorded >= Cardinality(DuePairs)
      ]_vars

\* a record cancel_request has set: failed with the error of the cancel
CancelledRecord(record) ==
    record.status = "failed" /\ record.error = "Request cancelled by user"

\* C34: once a request has been cancelled (status failed with the
\* cancelled-by-user error) its status never changes again: background processing
\* that was scheduled or under way does not make it processing or completed.
C34_CancelledStays ==
    [][ /\ \A request_id \in DOMAIN request_store :
              CancelledRecord(request_store[request_id])
                 => CancelledRecord(request_store'[request_id])
        /\ \A request_id \in DOMAIN active_requests :
              CancelledRecord(active_requests[request_id])
                 => CancelledRecord(active_requests'[request_id]) ]_vars

\* C37: after ToolManager.shutdown() has been called the manager never accepts
\* another execution: its status does not return to ready, also when an
\* execution that was in flight at the shutdown finishes afterwards.
C37_ShutdownIsFinal ==
    [][ manager_status = "shutdown"
          => /\ manager_status' = "shutdown"
             /\ Len(tool_executions') = Len(tool_executions) ]_vars

\* a step of WorkflowEngine.shutdown that found something registered: the only
\* operation that empties running_executions and execution_tasks together
\* and leaves the executions as they are
EngineShutdownStep ==
    /\ execution_tasks # {}
    /\ execution_tasks' = {}
    /\ running_executions' = {}
    /\ executions' = executions

\* C38: after the workflow engine's shutdown() returns, no execution is left with
\* status running and the engine's active_executions counter equals the number
\* of running executions, which is zero.
C38_ShutdownLeavesNothingRunning ==
    [][ EngineShutdownStep =>
          /\ \A e \in 1..Len(executions') : executions'[e].status # "running"
          /\ engine_metrics'.active_executions = 0 ]_vars

\* C35: in every workflow execution each step is run and counted at most once,
\* so completed_steps + failed_steps + skipped_steps never exceeds total_steps
\* and the reported progress never exceeds 1, also for workflows with parallel,
\* sequential or loop steps. (skipped_steps is never written: it stays 0.)
C35_CountedOnce ==
    \A e \in 1..Len(executions) :
        executions[e].completed_steps + executions[e].failed_steps
           <= executions[e].total_steps


\* an execution has made its first step: its task has left "created"
ExecutionBegins(e) ==
    /\ e \in 1..Len(executions)
    /\ exec_task[e].pc = "created"
    /\ exec_task'[e].pc # "created"

\* C36: every execution of a workflow runs its steps with run-state of its own:
\* when an execution begins, the attempt counter of each of its steps is 0 and
\* the step's status is pending, whatever earlier or concurrent executions of
\* the same workflow have done, so that it has all its retries available.
C36_FreshRunState ==
    [][ \A e \in 1..Len(executions) :
          ExecutionBegins(e) =>
             \A s \in StepIdsOf(executions[e].workflow_id) :
                step_objects[s] = [status |-> "pending", attempt_count |-> 0] ]_vars


\* the step tasks of execution e that have ended (their result recorded) and whose
\* step has a retry_config and an executor that raises on every attempt
RetriedToTheEnd(e) ==
    {key \in TaskKeys(executions[e].workflow_id) :
        LET step == get_step(StepsOf(executions[e].workflow_id), key[1])
        IN  /\ step_tasks[e][key] = "done"
            /\ "retry_config" \in DOMAIN step
            /\ executor_raises(step)}

\* C32: a step with a retry configuration whose executor raises an ordinary
\* exception on every attempt is attempted exactly max_attempts times within one
\* execution (never more: the retry recursion ends), and after that exactly one
\* failed result is recorded for it in the execution.
C32_RetriesExactly ==
    \A e \in 1..Len(executions) :
        \A key \in RetriedToTheEnd(e) :
            LET step == get_step(StepsOf(executions[e].workflow_id), key[1])
            IN  /\ step_attempts[<<e, key>>] = step.retry_config.max_attempts
                /\ executions[e].step_executions[key[1]] = "failed"
                /\ executions[e].failed_steps = 1


\* task t waits in the queue of the agent
Queued(t) == \E i \in 1..Len(task_queue) : task_queue[i].task_id = t

\* the main loop has caught an exception of its body and sleeps before it resumes
LoopErrorPause == loop_pc = "error_sleep" /\ running /\ ~cancel_requested

\* C31: an exception inside one iteration of the main-loop body does not end the
\* loop: the agent is marked error, pauses and resumes, and, when the iterations
\* from some time on raise no more and the agent is not stopped, every task queued
\* at the time of the pause is eventually taken from the queue and a queued
\* message is eventually handled.
C31_ResumesAfterError ==
    <>[](loop_pc # "error_sleep") =>
       /\ \A t \in 1..MaxTasks :
             (LoopErrorPause /\ Queued(t)) ~> (~Queued(t) \/ ~running)
       /\ (LoopErrorPause /\ message_queue # <<>>)
             ~> (loop_pc = "handling" \/ ~running)


\* the subtasks depend on subtasks of the decomposition only, and not in a circle:
\* they can be ranked so that every subtask ranks above its dependencies
Acyclic(dependency_graph) ==
    LET nodes == GraphNodes(dependency_graph)
    IN  /\ \A i \in 1..Len(dependency_graph) :
              dependency_graph[i].dependencies \subseteq nodes
        /\ \E rank \in [nodes -> 1..Len(dependency_graph)] :
              \A i \in 1..Len(dependency_graph) :
                  \A dep \in dependency_graph[i].dependencies :
                      rank[dep] < rank[dependency_graph[i].task_id]

\* the positions of task_id in a sequence
Positions(seq, task_id) == {i \in 1..Len(seq) : seq[i] = task_id}

\* C33: for an acyclic set of subtasks the computed execution order contains
\* every subtask exactly once and lists each subtask after all the subtasks it
\* depends on, and the execution groups together contain every subtask.
C33_PlanCoversAll ==
    (execution_plan.planned /\ Acyclic(plan_subtasks)) =>
        LET execution_order == execution_plan.execution_order
            nodes == GraphNodes(plan_subtasks)
        IN  /\ \A task_id \in nodes :
                  Cardinality(Positions(execution_order, task_id)) = 1
            /\ Range(execution_order) \subseteq nodes
            /\ \A task_id \in nodes :
                  \A dep \in GraphDeps(plan_subtasks, task_id) :
                      \A i \in Positions(execution_order, task_id) :
                          \A j \in Positions(execution_order, dep) : j < i
            /\ UNION {Range(execution_plan.execution_groups[g]) :
                         g \in 1..Len(execution_plan.execution_groups)} = nodes

============================================================================
